---- MODULE Spec2Model ----
(***************************************************************************)
(* Model of the cc-router worker: the endpoint health manager              *)
(* (EndpointHealthManager over globalHealthCache) and the failover loop    *)
(* tryEndpoints, driven by concurrently handled requests.                  *)
(*                                                                         *)
(* The worker runs on a JavaScript event loop.  A host task (a request     *)
(* arriving, a backend call returning or throwing) makes the continuation  *)
(* of a request ready; ready continuations run one at a time, in FIFO      *)
(* order, each up to its next `await`, and a host task runs only when no   *)
(* continuation is running.  One host task may make several requests       *)
(* ready.  Health records are JavaScript objects: getHealth hands out the  *)
(* stored object itself, recordFailure mutates it in place and stores it   *)
(* back, recordSuccess stores a new object.  The heap models that          *)
(* aliasing.                                                               *)
(***************************************************************************)
EXTENDS Integers, Sequences, FiniteSets, TLC

\* ---- bounds of the model ------------------------------------------------
NumEndpoints == 2
NumSources == 2
NumRequests == 2
MaxArrivals == 1
ConcArrivals == 3
TickStep == 30000
MaxTicks == 2
HealthTicks == 3
MaxCalls == 5
MaxLines == 2
MaxMessages == 2

\* ---- program constants --------------------------------------------------
COOLDOWN_TIME == 60
MAX_FAILURES == 3

ENDPOINTS == 0..(NumEndpoints - 1)
TARGET_BASE_URLS == 0..(NumSources - 1)
Keys == ENDPOINTS \X TARGET_BASE_URLS
Requests == 1..NumRequests

NoObj == 0
ObjIds == 1..(NumEndpoints * NumSources + NumRequests)
NoIndex == 0 - 1
Thrown == 0
Statuses == {200, 302, 400}

StartTime == 2 * TickStep

ZeroHealth == [failures |-> 0, lastFailTime |-> 0, inCooldown |-> FALSE]

VARIABLES
  now,                \* Date.now()
  globalHealthCache,  \* key -> stored object (NoObj when the key is absent)
  heap,               \* object -> health record
  req,                \* request slot -> state of its fetch / tryEndpoints
  calls,              \* request slot -> backend calls issued, in order
  outcomes,           \* request slot -> whether each answered call had status < 400
  arrivals,           \* number of requests accepted so far
  slots,              \* request slots the host may run concurrently
  queue,              \* ready continuations (microtask queue), FIFO
  draining,           \* TRUE while ready continuations are being run
  driver,             \* the caller of the health manager in SpecHealth and
                      \* SpecRecover
  stream,             \* convertClaudeStreamToOpenAI: input, buffer, output
  conv,               \* convertOpenAIToClaude: its argument and its result
  parsed              \* parseRequestPath: its argument and its result

vars == <<now, globalHealthCache, heap, req, calls, outcomes, arrivals, slots,
          queue, draining, driver, stream, conv, parsed>>

Min(S) == CHOOSE x \in S : \A y \in S : x <= y

\* ---- JavaScript objects -------------------------------------------------
Live(cache, rq) ==
  {cache[k] : k \in Keys} \cup {rq[r].health : r \in Requests}

FreshReused(cache, rq) == Min(ObjIds \ {cache[k] : k \in Keys})

Fresh(cache, rq) == Min(ObjIds \ Live(cache, rq))

Collect(cache, rq, hp) ==
  [o \in ObjIds |-> IF o \in Live(cache, rq) THEN hp[o] ELSE ZeroHealth]

\* the decimal digits of a non-negative integer
RECURSIVE digits(_)
digits(n) ==
  LET digit(d) == <<"0", "1", "2", "3", "4", "5", "6", "7", "8", "9">>[d + 1]
  IN IF n < 10 THEN <<digit(n)>> ELSE digits(n \div 10) \o <<digit(n % 10)>>

\* the string `${endpointIndex}-${baseUrlIndex}`
formatKey(endpointIndex, baseUrlIndex) ==
  digits(endpointIndex) \o <<"-">> \o digits(baseUrlIndex)

getHealthKeyEndpointOnly(endpointIndex, baseUrlIndex) == <<endpointIndex, 0>>

\* ---- EndpointHealthManager ----------------------------------------------
getHealthKey(endpointIndex, baseUrlIndex) == <<endpointIndex, baseUrlIndex>>

\* the object getHealth returns: the stored one, or a new zero record
getHealth(rq, endpointIndex, baseUrlIndex) ==
  LET key == getHealthKey(endpointIndex, baseUrlIndex)
  IN IF globalHealthCache[key] = NoObj
       THEN Fresh(globalHealthCache, rq)
       ELSE globalHealthCache[key]

\* the record getHealth yields, by value
healthOf(endpointIndex, baseUrlIndex) ==
  LET key == getHealthKey(endpointIndex, baseUrlIndex)
  IN IF globalHealthCache[key] = NoObj
       THEN ZeroHealth
       ELSE heap[globalHealthCache[key]]

cooldownElapsedNever(health, t) == FALSE

cooldownElapsedStrict(health, t) ==
  t - health.lastFailTime > COOLDOWN_TIME * 1000

cooldownElapsed(health, t) ==
  t - health.lastFailTime >= COOLDOWN_TIME * 1000

available(health, t) ==
  IF health.inCooldown THEN cooldownElapsed(health, t) ELSE TRUE

isAvailable(endpointIndex, baseUrlIndex) ==
  available(healthOf(endpointIndex, baseUrlIndex), now)

reachedThresholdStrict(failures) == failures > MAX_FAILURES

reachedThreshold(failures) == failures >= MAX_FAILURES

failedKeepsFirstTime(health, t) ==
  [failures |-> health.failures + 1,
   lastFailTime |-> IF health.failures = 0 THEN t ELSE health.lastFailTime,
   inCooldown |-> health.inCooldown \/ reachedThreshold(health.failures + 1)]

failed(health, t) ==
  [failures |-> health.failures + 1,
   lastFailTime |-> t,
   inCooldown |-> health.inCooldown \/ reachedThreshold(health.failures + 1)]

needsResetAlways(health) == TRUE

needsReset(health) == health.failures > 0 \/ health.inCooldown

ResetHealthKeepsCooldown ==
  [failures |-> 0, lastFailTime |-> 0, inCooldown |-> TRUE]

\* the record recordSuccess saves
ResetHealth == [failures |-> 0, lastFailTime |-> 0, inCooldown |-> FALSE]

\* ---- fetch: request path and response translation -----------------------
Methods == {"OPTIONS", "GET", "POST"}

ENDPOINT_NAMES == <<"droid", "aws", "ultra", "super">>

\* ENDPOINTS[e] split at '/': the last entry is '/claude', a prefix of the others
endpointPath(e) ==
  IF e = NumEndpoints - 1 THEN <<"claude">> ELSE <<"claude", ENDPOINT_NAMES[e + 1]>>

ModelsPath == <<"v1", "models">>

ChatCompletionsPath == <<"v1", "chat", "completions">>

MessagesPath == <<"v1", "messages">>

\* pathname.endsWith('/' + suffix)
endsWith(pathname, suffix) ==
  /\ Len(pathname) >= Len(suffix)
  /\ SubSeq(pathname, Len(pathname) - Len(suffix) + 1, Len(pathname)) = suffix

\* pathname.startsWith(prefix + '/')
startsWith(pathname, prefix) ==
  /\ Len(pathname) > Len(prefix)
  /\ SubSeq(pathname, 1, Len(prefix)) = prefix

parseRequestPathEndpointFirst(pathname) ==
  LET m == {e \in ENDPOINTS : startsWith(pathname, endpointPath(e))}
  IN IF m # {}
       THEN [preferredEndpoint |-> Min(m),
             apiPath |-> SubSeq(pathname, Len(endpointPath(Min(m))) + 1,
                                Len(pathname)),
             isOpenAI |-> FALSE, isModels |-> FALSE]
       ELSE [preferredEndpoint |-> NoIndex, apiPath |-> pathname,
             isOpenAI |-> endsWith(pathname, ModelsPath),
             isModels |-> endsWith(pathname, ModelsPath)]

parseRequestPathLastMatch(pathname) ==
  LET Max(S) == CHOOSE x \in S : \A y \in S : y <= x
  IN IF endsWith(pathname, ModelsPath)
       THEN [preferredEndpoint |-> NoIndex, apiPath |-> ModelsPath,
             isOpenAI |-> TRUE, isModels |-> TRUE]
     ELSE IF endsWith(pathname, ChatCompletionsPath)
       THEN LET m == {e \in ENDPOINTS : startsWith(pathname, endpointPath(e))}
            IN [preferredEndpoint |-> IF m # {} THEN Max(m) ELSE NoIndex,
                apiPath |-> MessagesPath, isOpenAI |-> TRUE, isModels |-> FALSE]
     ELSE LET m == {e \in ENDPOINTS : \/ startsWith(pathname, endpointPath(e))
                                      \/ pathname = endpointPath(e)}
          IN IF m # {}
               THEN [preferredEndpoint |-> Max(m),
                     apiPath |-> SubSeq(pathname, Len(endpointPath(Max(m))) + 1,
                                        Len(pathname)),
                     isOpenAI |-> FALSE, isModels |-> FALSE]
               ELSE [preferredEndpoint |-> NoIndex, apiPath |-> pathname,
                     isOpenAI |-> FALSE, isModels |-> FALSE]

\* preferredEndpoint is the index of the endpoint in ENDPOINTS (NoIndex: null)
parseRequestPath(pathname) ==
  IF endsWith(pathname, ModelsPath)
    THEN [preferredEndpoint |-> NoIndex, apiPath |-> ModelsPath,
          isOpenAI |-> TRUE, isModels |-> TRUE]
  ELSE IF endsWith(pathname, ChatCompletionsPath)
    THEN LET m == {e \in ENDPOINTS : startsWith(pathname, endpointPath(e))}
         IN [preferredEndpoint |-> IF m # {} THEN Min(m) ELSE NoIndex,
             apiPath |-> MessagesPath, isOpenAI |-> TRUE, isModels |-> FALSE]
  ELSE LET m == {e \in ENDPOINTS : \/ startsWith(pathname, endpointPath(e))
                                   \/ pathname = endpointPath(e)}
       IN IF m # {}
            THEN [preferredEndpoint |-> Min(m),
                  apiPath |-> SubSeq(pathname, Len(endpointPath(Min(m))) + 1,
                                     Len(pathname)),
                  isOpenAI |-> FALSE, isModels |-> FALSE]
            ELSE [preferredEndpoint |-> NoIndex, apiPath |-> pathname,
                  isOpenAI |-> FALSE, isModels |-> FALSE]

\* inbound paths: nothing, an endpoint, or something else in front of an API path
Pathnames ==
  {p \o a : p \in {<<>>, <<"claude", "other">>, <<"api">>}
                    \cup {endpointPath(e) : e \in ENDPOINTS},
            a \in {ModelsPath, ChatCompletionsPath, MessagesPath, <<>>}}

\* request bodies: a JSON object, text that is not JSON, the JSON value null
Bodies == {"object", "text", "null"}

InboundRequests == [method : Methods, pathname : Pathnames, body : Bodies]

requestTranslationNeverThrows(body) == FALSE

\* `await request.json()` or convertOpenAIToClaude(openaiBody) throws
requestTranslationThrows(body) == body # "object"

\* backend responses: content type and body (a JSON object, text that is not
\* JSON, the JSON value null, or no body)
ContentTypes == {"application/json", "text/event-stream"}

ResponseBodies == {"object", "text", "null", "none"}

BackendResponses ==
  [status : Statuses, contentType : ContentTypes, body : ResponseBodies]

JsonResponse(status) ==
  [status |-> status, contentType |-> "application/json", body |-> "object"]

ThrownResponse == [status |-> Thrown, contentType |-> "none", body |-> "none"]

NoHeaders ==
  [endpointIndex |-> NoIndex, baseUrlIndex |-> NoIndex,
   preferredEndpoint |-> NoIndex, formatConversion |-> FALSE]

\* `await result.response.json()` and convertClaudeToOpenAI
jsonTranslation(body) == IF body = "object" THEN "converted" ELSE "threw"

\* convertClaudeStreamToOpenAI(result.response.body, ...): getReader()
streamTranslation(body) == IF body = "none" THEN "threw" ELSE "convertedStream"

\* the response translation of fetch: "none" when it is not attempted
translate(isOpenAI, status, contentType, body) ==
  IF isOpenAI /\ status = 200
    THEN IF contentType = "text/event-stream"
           THEN streamTranslation(body)
           ELSE jsonTranslation(body)
    ELSE "none"

\* result.response.body has been read by response.json()
disturbed(isOpenAI, status, contentType, body) ==
  /\ isOpenAI /\ status = 200
  /\ contentType # "text/event-stream"
  /\ body # "none"

debugHeadersOfStart(q) ==
  [endpointIndex |-> q.startIndex, baseUrlIndex |-> 0,
   preferredEndpoint |-> q.preferredEndpoint, formatConversion |-> q.isOpenAI]

formatConversionWhenTranslated(q) ==
  [endpointIndex |-> q.currentIndex, baseUrlIndex |-> q.baseUrlIndex,
   preferredEndpoint |-> q.preferredEndpoint,
   formatConversion |-> translate(q.isOpenAI, q.status, q.contentType, q.body)
                          \in {"converted", "convertedStream"}]

\* X-Endpoint-Index, X-Base-URL-Index, X-Preferred-Endpoint, X-Format-Conversion
debugHeaders(q) ==
  [endpointIndex |-> q.currentIndex, baseUrlIndex |-> q.baseUrlIndex,
   preferredEndpoint |-> q.preferredEndpoint, formatConversion |-> q.isOpenAI]

\* ---- tryEndpoints -------------------------------------------------------
IdleReq ==
  [pc |-> "idle", preferredEndpoint |-> NoIndex, startIndex |-> 0,
   attempt |-> 0, triedEndpoints |-> {}, phase |-> 0, i |-> 0, sb |-> 0,
   currentIndex |-> NoIndex, baseUrlIndex |-> NoIndex, health |-> NoObj,
   avail |-> FALSE, status |-> 0, success |-> FALSE, response |-> 0,
   \* fetch: the request hint, the backend response in hand, and the
   \* response handed to the caller
   routed |-> FALSE, isOpenAI |-> FALSE, contentType |-> "none",
   body |-> "none", translation |-> "none", responseBody |-> "none",
   headers |-> NoHeaders,
   \* history: every key was available on arrival; the keys the primary
   \* scan of this iteration found unavailable; how the endpoint was chosen;
   \* the number of health updates made
   healthy |-> FALSE, unavail |-> {}, fallback |-> FALSE, found |-> NoIndex,
   updates |-> 0]

computeStartIndexIgnoresPreferred(preferredEndpoint) == 0

computeStartIndex(preferredEndpoint) ==
  IF preferredEndpoint # NoIndex /\ preferredEndpoint \in ENDPOINTS
    THEN preferredEndpoint
    ELSE 0

untried(triedEndpoints, i) == i \notin triedEndpoints

markTriedForgets(triedEndpoints, currentIndex) == triedEndpoints

markTried(triedEndpoints, currentIndex) == triedEndpoints \cup {currentIndex}

scanFromNoWrap(q, phase, from) ==
  LET c1 == IF phase = 1
              THEN {j \in ENDPOINTS : j >= from /\ j \notin q.triedEndpoints}
              ELSE {}
  IN IF c1 # {} THEN <<1, Min(c1)>> ELSE <<0, NoIndex>>

scanFromLowestFirst(q, phase, from) ==
  LET from1 == IF phase = 1 /\ from = q.startIndex THEN 0 ELSE from
      c == {j \in ENDPOINTS : j >= from1 /\ untried(q.triedEndpoints, j)}
  IN IF c # {} THEN <<1, Min(c)>> ELSE <<0, NoIndex>>

\* next index at which the primary scan calls isAvailable: phase 1 walks
\* [from, N), phase 2 walks [from, startIndex); <<0, NoIndex>> when none
scanFrom(q, phase, from) ==
  LET c1 == IF phase = 1
              THEN {j \in ENDPOINTS : j >= from /\ untried(q.triedEndpoints, j)}
              ELSE {}
      from2 == IF phase = 1 THEN 0 ELSE from
      c2 == IF q.startIndex > 0
              THEN {j \in ENDPOINTS : j >= from2 /\ j < q.startIndex
                                      /\ untried(q.triedEndpoints, j)}
              ELSE {}
  IN IF c1 # {} THEN <<1, Min(c1)>>
     ELSE IF c2 # {} THEN <<2, Min(c2)>>
     ELSE <<0, NoIndex>>

fallbackIndexLowest(q) ==
  LET c == {j \in ENDPOINTS : untried(q.triedEndpoints, j)}
  IN IF c # {} THEN Min(c) ELSE NoIndex

fallbackIndexNone(q) == NoIndex

\* the scan that ignores availability
fallbackIndex(q) ==
  LET c1 == {j \in ENDPOINTS : j >= q.startIndex /\ untried(q.triedEndpoints, j)}
      c2 == IF q.startIndex > 0
              THEN {j \in ENDPOINTS : j < q.startIndex
                                      /\ untried(q.triedEndpoints, j)}
              ELSE {}
  IN IF c1 # {} THEN Min(c1)
     ELSE IF c2 # {} THEN Min(c2)
     ELSE NoIndex

\* fetch: what the handler returns for a result of tryEndpoints
handlerResponse(success, status) == IF ~success THEN 503 ELSE status

\* fetch after a success result of tryEndpoints: the response is translated
\* for a compat request with status 200 and a Response is built around the
\* body; `new Response(body, ...)` throws on a body that has been read, and
\* the global catch then answers 500
respond(q) ==
  LET t == translate(q.isOpenAI, q.status, q.contentType, q.body)
      used == t = "threw" /\ disturbed(q.isOpenAI, q.status, q.contentType, q.body)
  IN [IdleReq EXCEPT
        !.pc = "done", !.healthy = q.healthy, !.routed = TRUE,
        !.updates = q.updates,
        !.preferredEndpoint = q.preferredEndpoint,
        !.startIndex = q.startIndex,
        !.currentIndex = q.currentIndex,
        !.baseUrlIndex = q.baseUrlIndex,
        !.isOpenAI = q.isOpenAI,
        !.success = TRUE,
        !.translation = t,
        !.response = IF used THEN 500 ELSE handlerResponse(TRUE, q.status),
        !.responseBody = IF used THEN "internal_error"
                         ELSE IF t \in {"converted", "convertedStream"} THEN t
                         ELSE "backend",
        !.headers = IF used THEN NoHeaders ELSE debugHeaders(q)]

\* fetch answers at once, without tryEndpoints
immediate(status, responseBody) ==
  [IdleReq EXCEPT !.pc = "done", !.response = status,
                  !.responseBody = responseBody]

\* fetch from its start to the call of tryEndpoints
handle(request) ==
  LET hint == parseRequestPath(request.pathname)
  IN IF request.method = "OPTIONS" THEN immediate(204, "none")
     ELSE IF hint.isModels THEN immediate(200, "models")
     ELSE IF /\ hint.isOpenAI /\ request.method = "POST"
             /\ requestTranslationThrows(request.body)
       THEN immediate(400, "invalid_request_error")
     ELSE [IdleReq EXCEPT !.pc = "start", !.routed = TRUE,
                          !.preferredEndpoint = hint.preferredEndpoint,
                          !.isOpenAI = hint.isOpenAI]

\* return {response: null, endpointIndex: -1, baseUrlIndex: -1, success: false}
exhausted(q) ==
  [IdleReq EXCEPT !.pc = "done", !.preferredEndpoint = q.preferredEndpoint,
                  !.startIndex = q.startIndex, !.healthy = q.healthy,
                  !.routed = TRUE, !.isOpenAI = q.isOpenAI,
                  !.updates = q.updates,
                  !.response = handlerResponse(FALSE, 0),
                  !.responseBody = "All endpoints failed"]

\* an endpoint has been chosen: mark it tried and call its first source
select(q, currentIndex) ==
  IF currentIndex = NoIndex
    THEN exhausted(q)
    ELSE [q EXCEPT !.pc = "call", !.phase = 0, !.i = 0, !.sb = 0,
                   !.triedEndpoints = markTried(q.triedEndpoints, currentIndex),
                   !.currentIndex = currentIndex, !.baseUrlIndex = 0]

\* `await manager.isAvailable(i, baseUrlIndex)` up to the await inside it
callIsAvailable(q, phase, i, sb) ==
  [q EXCEPT !.pc = "isAvailable", !.phase = phase, !.i = i, !.sb = sb,
            !.currentIndex = NoIndex, !.baseUrlIndex = NoIndex,
            !.health = getHealth(req, i, sb)]

\* no endpoint has an available source: take the first untried one
selectAny(q) == select([q EXCEPT !.fallback = TRUE], fallbackIndex(q))

moreAttemptsOffByOne(attempt) == attempt < NumEndpoints - 1

moreAttempts(attempt) == attempt < NumEndpoints

enterAttemptNoScan(q0) ==
  IF moreAttempts(q0.attempt)
    THEN selectAny([q0 EXCEPT !.unavail = {}, !.fallback = FALSE,
                              !.found = NoIndex])
    ELSE exhausted(q0)

\* top of the outer loop
enterAttempt(q0) ==
  IF moreAttempts(q0.attempt)
    THEN LET q == [q0 EXCEPT !.unavail = {}, !.fallback = FALSE,
                             !.found = NoIndex]
             s == scanFrom(q, 1, q.startIndex)
         IN IF s[1] # 0
              THEN callIsAvailable(q, s[1], s[2], 0)
              ELSE selectAny(q)
    ELSE exhausted(q0)

\* the primary scan goes on with the result of isAvailable
scanResume(q0) ==
  IF q0.avail
    THEN select([q0 EXCEPT !.found = q0.sb, !.avail = FALSE], q0.i)
    ELSE LET q == [q0 EXCEPT !.unavail = q0.unavail \cup {<<q0.i, q0.sb>>}]
         IN IF q.sb + 1 < NumSources
              THEN callIsAvailable(q, q.phase, q.i, q.sb + 1)
              ELSE LET s == scanFrom(q, q.phase, q.i + 1)
                   IN IF s[1] # 0
                        THEN callIsAvailable(q, s[1], s[2], 0)
                        ELSE selectAny(q)

moreSourcesNever(baseUrlIndex) == FALSE

moreSources(baseUrlIndex) == baseUrlIndex + 1 < NumSources

\* after a failure has been recorded: next source, or next endpoint
afterFailure(q) ==
  IF moreSources(q.baseUrlIndex)
    THEN [q EXCEPT !.pc = "call", !.baseUrlIndex = q.baseUrlIndex + 1]
    ELSE enterAttempt([q EXCEPT !.attempt = q.attempt + 1])

isSuccessStatusOnly2xx(status) == status < 300

isSuccessStatusInclusive(status) == status <= 400

isSuccessStatus(status) == status < 400

\* ---- convertClaudeStreamToOpenAI ----------------------------------------
\* The upstream bytes are a sequence of tokens: NL is '\n', the others are
\* pieces of a line.  A data line is 'data: ' followed by its payload.
NL == "\n"

DataPrefix == "data: "

DoneToken == "[DONE]"

\* the payloads JSON.parse accepts, as the objects it returns
ClaudeEvents ==
  [message_start |->
     [type |-> "message_start", message |-> TRUE, delta |-> "none",
      stop_reason |-> "none"],
   message_start_bare |->
     [type |-> "message_start", message |-> FALSE, delta |-> "none",
      stop_reason |-> "none"],
   content_block_start |->
     [type |-> "content_block_start", message |-> FALSE, delta |-> "none",
      stop_reason |-> "none"],
   text_delta |->
     [type |-> "content_block_delta", message |-> FALSE, delta |-> "text_delta",
      stop_reason |-> "none"],
   input_json_delta |->
     [type |-> "content_block_delta", message |-> FALSE,
      delta |-> "input_json_delta", stop_reason |-> "none"],
   content_block_stop |->
     [type |-> "content_block_stop", message |-> FALSE, delta |-> "none",
      stop_reason |-> "none"],
   end_turn |->
     [type |-> "message_delta", message |-> FALSE, delta |-> "none",
      stop_reason |-> "end_turn"],
   max_tokens |->
     [type |-> "message_delta", message |-> FALSE, delta |-> "none",
      stop_reason |-> "max_tokens"],
   usage |->
     [type |-> "message_delta", message |-> FALSE, delta |-> "none",
      stop_reason |-> "none"],
   message_stop |->
     [type |-> "message_stop", message |-> FALSE, delta |-> "none",
      stop_reason |-> "none"],
   ping |->
     [type |-> "ping", message |-> FALSE, delta |-> "none",
      stop_reason |-> "none"],
   error |->
     [type |-> "error", message |-> FALSE, delta |-> "none",
      stop_reason |-> "none"],
   unknown |->
     [type |-> "unknown", message |-> FALSE, delta |-> "none",
      stop_reason |-> "none"]]

\* a payload JSON.parse throws on
BadJson == "{"

\* the text of the text_delta event
DeltaText == "Hi"

\* what the transcoder enqueues: a chat.completion.chunk, an error object,
\* or the done sentinel
Chunk(role, content, finish_reason) ==
  [kind |-> "chunk", role |-> role, content |-> content,
   finish_reason |-> finish_reason]

ErrorChunk ==
  [kind |-> "error", role |-> "none", content |-> "none",
   finish_reason |-> "none"]

DoneSentinel ==
  [kind |-> "done", role |-> "none", content |-> "none",
   finish_reason |-> "none"]

finishReasonUnmapped(stop_reason) == stop_reason

finishReason(stop_reason) ==
  IF stop_reason = "end_turn" THEN "stop"
  ELSE IF stop_reason = "max_tokens" THEN "length"
  ELSE stop_reason

\* the switch on claudeEvent.type: the outputs enqueued, or threw
convertEvent(claudeEvent) ==
  IF claudeEvent.type = "message_start"
    THEN IF claudeEvent.message
           THEN [threw |-> FALSE, out |-> <<Chunk("assistant", "", "null")>>]
           ELSE [threw |-> TRUE, out |-> <<>>]
  ELSE IF claudeEvent.type = "content_block_delta"
    THEN [threw |-> FALSE,
          out |-> IF claudeEvent.delta = "text_delta"
                    THEN <<Chunk("none", DeltaText, "null")>>
                    ELSE <<>>]
  ELSE IF claudeEvent.type = "message_delta"
    THEN [threw |-> FALSE,
          out |-> IF claudeEvent.stop_reason # "none"
                    THEN <<Chunk("none", "none",
                                 finishReason(claudeEvent.stop_reason))>>
                    ELSE <<>>]
  ELSE IF claudeEvent.type = "message_stop"
    THEN [threw |-> FALSE, out |-> <<DoneSentinel>>]
  ELSE IF claudeEvent.type = "error"
    THEN [threw |-> FALSE, out |-> <<ErrorChunk>>]
  ELSE [threw |-> FALSE, out |-> <<>>]

\* JSON.parse(data) and the switch, inside the inner try
convertData(data) ==
  IF Len(data) = 1 /\ data[1] \in DOMAIN ClaudeEvents
    THEN convertEvent(ClaudeEvents[data[1]])
    ELSE [threw |-> TRUE, out |-> <<>>]

\* the transcoder while reading: output so far, and history (the read of
\* the input failed; a message_stop has been handled; outputs enqueued
\* after that)
IdleStream ==
  [upstream |-> <<>>, received |-> 0, buffer |-> <<>>, emitted |-> <<>>,
   state |-> "idle", failed |-> FALSE, stopped |-> FALSE, late |-> 0]

enqueueUntilStopped(st, out, stop) ==
  [st EXCEPT !.emitted = IF st.stopped THEN st.emitted ELSE st.emitted \o out,
             !.stopped = st.stopped \/ stop]

\* controller.enqueue
enqueue(st, out, stop) ==
  [st EXCEPT !.emitted = st.emitted \o out,
             !.late = IF st.stopped THEN st.late + Len(out) ELSE st.late,
             !.stopped = st.stopped \/ stop]

catchAborts(st) == [st EXCEPT !.state = "errored"]

\* the inner catch: console.error, nothing else
catch(st) == st

\* the body of `for (const line of lines)`
convertLine(st, line) ==
  IF st.state # "reading" THEN st
  ELSE IF line = <<>> \/ line[1] = ":" THEN st
  ELSE IF line[1] = DataPrefix
    THEN LET data == Tail(line)
         IN IF data = <<DoneToken>>
              THEN enqueue(st, <<DoneSentinel>>, FALSE)
              ELSE LET c == convertData(data)
                   IN IF c.threw
                        THEN catch(st)
                        ELSE enqueue(st, c.out,
                                     data = <<"message_stop">>)
  ELSE st

RECURSIVE convertLines(_, _)
convertLines(st, lines) ==
  IF lines = <<>> THEN st
  ELSE convertLines(convertLine(st, Head(lines)), Tail(lines))

\* buffer.split('\n')
RECURSIVE split(_)
split(tokens) ==
  IF tokens = <<>> THEN << <<>> >>
  ELSE LET rest == split(Tail(tokens))
       IN IF Head(tokens) = NL
            THEN << <<>> >> \o rest
            ELSE << <<Head(tokens)>> \o rest[1] >> \o Tail(rest)

popKeepsLast(lines) == lines

\* lines.pop(): the lines left in the array
pop(lines) == SubSeq(lines, 1, Len(lines) - 1)

onChunkDropsPartial(st, value) ==
  LET lines == split(value)
      st1 == [st EXCEPT !.received = st.received + Len(value),
                        !.buffer = <<>>]
  IN convertLines(st1, pop(lines))

\* one turn of the read loop on a chunk
onChunk(st, value) ==
  LET lines == split(st.buffer \o value)
      st1 == [st EXCEPT !.received = st.received + Len(value),
                        !.buffer = lines[Len(lines)]]
  IN convertLines(st1, pop(lines))

\* upstream inputs: up to MaxLines lines of any kind, the last one with or
\* without its newline; and the exchange message_start, text delta, stop
\* reason, message_stop with other events in between
Payloads == DOMAIN ClaudeEvents

LineKinds ==
  {<<>>, <<":">>, <<"event: message_stop">>, <<DataPrefix, DoneToken>>,
   <<DataPrefix, BadJson>>}
    \cup {<<DataPrefix, p>> : p \in Payloads}

RECURSIVE join(_)
join(lines) ==
  IF lines = <<>> THEN <<>>
  ELSE Head(lines) \o <<NL>> \o join(Tail(lines))

ShortStreams ==
  LET ls == UNION {[1..n -> LineKinds] : n \in 0..MaxLines}
  IN {join(l) : l \in ls}
       \cup {SubSeq(join(l), 1, Len(join(l)) - 1) : l \in ls \ {<<>>}}

SilentLines ==
  {<<DataPrefix, p>> :
     p \in {"content_block_start", "content_block_stop", "ping", "unknown"}}

Exchanges ==
  LET gap == {<<>>} \cup {<<l>> : l \in SilentLines}
  IN {join(g[1] \o << <<DataPrefix, "message_start">> >>
           \o g[2] \o << <<DataPrefix, "text_delta">> >>
           \o g[3] \o << <<DataPrefix, "end_turn">> >>
           \o g[4] \o << <<DataPrefix, "message_stop">> >>
           \o g[5]) : g \in [1..5 -> gap]}

Upstreams == ShortStreams \cup Exchanges

\* ---- convertOpenAIToClaude ------------------------------------------------
\* JavaScript values: t is the type (typeof, with null and array told
\* apart), v the value; an array or object of no interest is "empty" or not
Undefined == [t |-> "undefined", v |-> ""]

Null == [t |-> "null", v |-> ""]

Str(x) == [t |-> "string", v |-> x]

Num(x) == [t |-> "number", v |-> x]

Bool(b) == [t |-> "boolean", v |-> IF b THEN "true" ELSE "false"]

\* an array with its items; t is "undefined" when the property is absent
Array(items) == [t |-> "array", items |-> items]

NoArray == [t |-> "undefined", items |-> <<>>]

isValidValueNullOk(value) ==
  /\ value.t # "undefined"
  /\ ~(value.t = "string" /\ value.v \in {"[undefined]", "undefined"})
  /\ (value.t \in {"array", "object"} => value.v # "empty")

isValidValue(value) ==
  /\ value.t \notin {"undefined", "null"}
  /\ ~(value.t = "string" /\ value.v \in {"[undefined]", "undefined"})
  /\ (value.t \in {"array", "object"} => value.v # "empty")

\* isValidValue of an array property
isValidArray(array) == array.t = "array" /\ array.items # <<>>

DefaultModel == Str("claude-3-5-sonnet-20241022")

DefaultMaxTokens == Num("4096")

\* the messages pushed: the role and the content of the user and assistant
\* entries with valid content
claudeMessages(messages) ==
  IF messages.t = "array"
    THEN LET pushed == SelectSeq(messages.items,
                                 LAMBDA msg : /\ msg.role \in {"user", "assistant"}
                                              /\ isValidValue(msg.content))
         IN [i \in DOMAIN pushed |->
               [role |-> pushed[i].role, content |-> pushed[i].content]]
    ELSE <<>>

\* claudeRequest.system: the content of the last system entry with valid
\* content
claudeSystem(messages) ==
  LET idx == IF messages.t = "array"
               THEN {i \in DOMAIN messages.items :
                       /\ messages.items[i].role = "system"
                       /\ isValidValue(messages.items[i].content)}
               ELSE {}
  IN IF idx = {}
       THEN Undefined
       ELSE messages.items[CHOOSE i \in idx : \A j \in idx : j <= i].content

numberOrAbsent(value) ==
  IF isValidValue(value) /\ value.t = "number" THEN value ELSE Undefined

streamOrAbsent(value) ==
  IF isValidValue(value) /\ value.t = "boolean" THEN value ELSE Undefined

\* claudeRequest.stream
streamOrFalse(value) ==
  IF isValidValue(value) /\ value.t = "boolean" THEN value ELSE Bool(FALSE)

\* claudeRequest.stop_sequences; stop is a string (v) or an array (items)
stopSequences(stop) ==
  IF stop.t = "array" /\ stop.items # <<>>
    THEN LET validStops == SelectSeq(stop.items, isValidValue)
         IN IF validStops # <<>> THEN Array(validStops) ELSE NoArray
  ELSE IF stop.t = "string" /\ isValidValue(Str(stop.v))
    THEN Array(<<Str(stop.v)>>)
  ELSE NoArray

\* cleanObject on a scalar property and on an array property
cleaned(value) == IF isValidValue(value) THEN value ELSE Undefined

cleanedArrayKeeps(array) == array

cleanedArray(array) == IF isValidArray(array) THEN array ELSE NoArray

convertOpenAIToClaude(openaiRequest) ==
  [model |-> cleaned(IF isValidValue(openaiRequest.model)
                       THEN openaiRequest.model ELSE DefaultModel),
   max_tokens |-> cleaned(IF isValidValue(openaiRequest.max_tokens)
                            THEN openaiRequest.max_tokens
                            ELSE DefaultMaxTokens),
   messages |-> cleanedArray(Array(claudeMessages(openaiRequest.messages))),
   system |-> cleaned(claudeSystem(openaiRequest.messages)),
   temperature |-> cleaned(numberOrAbsent(openaiRequest.temperature)),
   top_p |-> cleaned(numberOrAbsent(openaiRequest.top_p)),
   stream |-> cleaned(streamOrFalse(openaiRequest.stream)),
   stop_sequences |-> cleanedArray(stopSequences(openaiRequest.stop))]

\* arguments of convertOpenAIToClaude
Roles == {"system", "user", "assistant", "tool"}

Contents == {Str("S"), Str("U"), Null}

Messages == [role : Roles, content : Contents]

OpenAIRequests ==
  [model : {Undefined, Str("m"), Str("[undefined]")},
   max_tokens : {Undefined, Num("10"), Null},
   messages : {NoArray}
                \cup {Array(m) : m \in UNION {[1..n -> Messages] :
                                                n \in 0..MaxMessages}},
   temperature : {Undefined, Num("1")},
   top_p : {Undefined, Str("1")},
   stream : {Undefined, Bool(TRUE), Bool(FALSE), Str("true")},
   stop : {[t |-> "undefined", v |-> "", items |-> <<>>],
           [t |-> "string", v |-> "END", items |-> <<>>],
           [t |-> "array", v |-> "", items |-> <<Null>>]}]

ExampleRequestFields ==
  [model |-> Str("m"), max_tokens |-> Num("10"), messages |-> NoArray,
   temperature |-> Undefined, top_p |-> Undefined, stream |-> Undefined,
   stop |-> [t |-> "undefined", v |-> "", items |-> <<>>]]

\* message contents of every kind isValidValue tells apart: strings, the
\* placeholder strings, absent, null, arrays and objects, empty or not
AnyContents ==
  {Str("S"), Str("U"), Str("undefined"), Str("[undefined]"), Undefined, Null,
   [t |-> "array", v |-> "empty"], [t |-> "array", v |-> "parts"],
   [t |-> "object", v |-> "empty"]}

\* requests that differ in their messages only; an entry has a name or not
MessageLists ==
  {[ExampleRequestFields EXCEPT !.messages = m] :
     m \in {NoArray}
             \cup {Array(l) : l \in UNION {[1..n -> [role : Roles,
                                                     content : AnyContents,
                                                     name : {"", "n"}]] :
                                             n \in 0..MaxMessages}}}

\* arguments of parseRequestPath: something or nothing in front, an
\* endpoint or something like one or nothing, an API path or nothing
AnyPathnames ==
  {f \o m \o a :
     f \in {<<>>, <<"api">>},
     m \in {<<>>, <<"claude", "other">>, <<"other">>}
             \cup {endpointPath(e) : e \in ENDPOINTS},
     a \in {<<>>, <<"v1">>, ModelsPath, ChatCompletionsPath, MessagesPath,
            ChatCompletionsPath \o <<"x">>}}

NoHint == [preferredEndpoint |-> NoIndex, apiPath |-> <<>>,
           isOpenAI |-> FALSE, isModels |-> FALSE]

IdleParse == [pathname |-> <<>>, hint |-> NoHint, state |-> "idle"]

IdleConv == [openaiRequest |-> Undefined, claudeRequest |-> Undefined,
             state |-> "idle"]

\* ---- event loop ----------------------------------------------------------
Waiting(pc) == pc \in {"idle", "call", "done"}

\* request r has run one continuation and is now in state q
Ran(r, q) ==
  /\ req' = [req EXCEPT ![r] = q]
  /\ queue' = IF Waiting(q.pc) THEN Tail(queue) ELSE Append(Tail(queue), r)
  /\ draining' = (queue' # <<>>)
  /\ calls' = [calls EXCEPT ![r] =
                 IF q.pc = "call"
                   THEN Append(calls[r], <<q.currentIndex, q.baseUrlIndex>>)
                   ELSE calls[r]]

Ready(r, pc) == queue # <<>> /\ Head(queue) = r /\ req[r].pc = pc

\* ---- actions -------------------------------------------------------------
\* health records the store can hold when a request arrives: none, two
\* failures, or three failures and in cooldown, last failure at TickStep
InitFailures == {0, MAX_FAILURES - 1, MAX_FAILURES}

objOf(key) == key[1] * NumSources + key[2] + 1

StoreWith(f) ==
  /\ globalHealthCache = [k \in Keys |-> IF f[k] = 0 THEN NoObj ELSE objOf(k)]
  /\ heap = [o \in ObjIds |->
               IF \E k \in Keys : objOf(k) = o /\ f[k] # 0
                 THEN LET k == CHOOSE k \in Keys : objOf(k) = o
                      IN [failures |-> f[k], lastFailTime |-> TickStep,
                          inCooldown |-> f[k] >= MAX_FAILURES]
                 ELSE ZeroHealth]

Idle ==
  /\ now = StartTime
  /\ req = [r \in Requests |-> IdleReq]
  /\ calls = [r \in Requests |-> <<>>]
  /\ outcomes = [r \in Requests |-> <<>>]
  /\ arrivals = 0
  /\ queue = <<>>
  /\ draining = FALSE
  /\ driver = [streak |-> [k \in Keys |-> 0], lastFailAt |-> [k \in Keys |-> 0],
               lastCall |-> <<"none", <<0, 0>>>>, gap |-> 0, ncalls |-> 0,
               recovered |-> {}]

\* one request at a time, any health store
Init ==
  /\ Idle
  /\ stream = IdleStream
  /\ conv = IdleConv
  /\ parsed = IdleParse
  /\ slots = {1}
  /\ \E f \in [Keys -> InitFailures] : StoreWith(f)

\* concurrent requests, empty health store (a new worker instance)
InitConc ==
  /\ Idle
  /\ stream = IdleStream
  /\ conv = IdleConv
  /\ parsed = IdleParse
  /\ slots = Requests
  /\ StoreWith([k \in Keys |-> 0])

Tick ==
  /\ now + TickStep <= StartTime + MaxTicks * TickStep
  /\ now' = now + TickStep
  /\ UNCHANGED <<globalHealthCache, heap, req, calls, outcomes, arrivals,
                 slots, queue, draining, driver, stream, conv,
                 parsed>>

\* the event loop is between tasks and slot r can take a request
Accepting(r) ==
  /\ ~draining
  /\ r \in slots
  /\ req[r].pc \in {"idle", "done"}
  /\ arrivals < (IF Cardinality(slots) = 1 THEN MaxArrivals ELSE ConcArrivals)

\* host task: a request arrives and its body has been read; fetch answers
\* it at once or calls tryEndpoints
Arrive(r, request) ==
  LET q == handle(request)
  IN /\ Accepting(r)
     /\ arrivals' = arrivals + 1
     /\ req' = [req EXCEPT ![r] =
                  IF q.pc = "start"
                    THEN [q EXCEPT !.healthy =
                                     \A k \in Keys : isAvailable(k[1], k[2])]
                    ELSE q]
     /\ calls' = [calls EXCEPT ![r] = <<>>]
     /\ outcomes' = [outcomes EXCEPT ![r] = <<>>]
     /\ queue' = IF q.pc = "start" THEN Append(queue, r) ELSE queue
     /\ UNCHANGED <<now, globalHealthCache, heap, slots, draining, driver,
                    stream, conv,
                 parsed>>

\* tryEndpoints from its start to its first await
Start(r) ==
  /\ Ready(r, "start")
  /\ Ran(r, enterAttempt([req[r] EXCEPT
                 !.startIndex = computeStartIndex(req[r].preferredEndpoint)]))
  /\ UNCHANGED <<now, globalHealthCache, heap, outcomes, arrivals, slots,
                 driver, stream, conv,
                 parsed>>

IsAvailableResets(r) ==
  LET q == req[r]
      probation == /\ heap[q.health].inCooldown
                   /\ cooldownElapsed(heap[q.health], now)
      q2 == [q EXCEPT !.pc = "scan", !.health = NoObj,
                      !.avail = available(heap[q.health], now)]
      heap1 == IF probation THEN [heap EXCEPT ![q.health] = ResetHealth]
                            ELSE heap
  IN /\ Ready(r, "isAvailable")
     /\ Ran(r, q2)
     /\ heap' = Collect(globalHealthCache, [req EXCEPT ![r] = q2], heap1)
     /\ UNCHANGED <<now, globalHealthCache, outcomes, arrivals, slots,
                    driver, stream, conv,
                 parsed>>

IsAvailableReserves(r) ==
  LET q == req[r]
      probation == /\ heap[q.health].inCooldown
                   /\ cooldownElapsed(heap[q.health], now)
      q2 == [q EXCEPT !.pc = "scan", !.health = NoObj,
                      !.avail = available(heap[q.health], now)]
      heap1 == IF probation
                 THEN [heap EXCEPT ![q.health].lastFailTime = now]
                 ELSE heap
  IN /\ Ready(r, "isAvailable")
     /\ Ran(r, q2)
     /\ heap' = Collect(globalHealthCache, [req EXCEPT ![r] = q2], heap1)
     /\ UNCHANGED <<now, globalHealthCache, outcomes, arrivals, slots,
                    driver, stream, conv,
                 parsed>>

\* isAvailable after `await this.getHealth(...)`
IsAvailable(r) ==
  LET q == req[r]
      q2 == [q EXCEPT !.pc = "scan", !.health = NoObj,
                      !.avail = available(heap[q.health], now)]
  IN /\ Ready(r, "isAvailable")
     /\ Ran(r, q2)
     /\ heap' = Collect(globalHealthCache, [req EXCEPT ![r] = q2], heap)
     /\ UNCHANGED <<now, globalHealthCache, outcomes, arrivals, slots,
                    driver, stream, conv,
                 parsed>>

\* the primary scan after `await manager.isAvailable(...)`
Scan(r) ==
  /\ Ready(r, "scan")
  /\ Ran(r, scanResume(req[r]))
  /\ UNCHANGED <<now, globalHealthCache, heap, outcomes, arrivals, slots,
                 driver, stream, conv,
                 parsed>>

\* host task: the backend call returns (status) or throws (Thrown)
Answer(r, response) ==
  LET ok == response.status # Thrown /\ response.status < 400
  IN /\ ~draining
     /\ req[r].pc = "call"
     /\ req' = [req EXCEPT ![r] =
                  [req[r] EXCEPT !.pc = "answered",
                                 !.status = response.status,
                                 !.contentType = IF ok THEN response.contentType
                                                 ELSE "none",
                                 !.body = IF ok THEN response.body ELSE "none"]]
     /\ outcomes' = [outcomes EXCEPT ![r] =
                       Append(outcomes[r], IF ok THEN response.status ELSE 0)]
     /\ queue' = Append(queue, r)
     /\ UNCHANGED <<now, globalHealthCache, heap, calls, arrivals, slots,
                    draining, driver, stream, conv,
                 parsed>>

\* a response with a JSON body
RespondStatus(r, status) == status \in Statuses /\ Answer(r, JsonResponse(status))

\* a response of any content type and body
Respond(r, response) == response \in BackendResponses /\ Answer(r, response)

RespondThrow(r) == Answer(r, ThrownResponse)

\* tryEndpoints after `await proxyRequest(...)`: recordSuccess or
\* recordFailure is entered and runs up to `await this.getHealth(...)`
Answered(r) ==
  LET q == req[r]
      ok == q.status # Thrown /\ isSuccessStatus(q.status)
  IN /\ Ready(r, "answered")
     /\ Ran(r, [q EXCEPT !.pc = IF ok THEN "recordSuccess" ELSE "recordFailure",
                         !.health = getHealth(req, q.currentIndex, q.baseUrlIndex)])
     /\ UNCHANGED <<now, globalHealthCache, heap, outcomes, arrivals,
                    slots, driver, stream, conv,
                 parsed>>

\* recordFailure after its first await: mutate the object, saveHealth
RecordFailure(r) ==
  LET q == req[r]
      key == getHealthKey(q.currentIndex, q.baseUrlIndex)
      heap1 == [heap EXCEPT ![q.health] = failed(heap[q.health], now)]
      cache1 == [globalHealthCache EXCEPT ![key] = q.health]
      q2 == [q EXCEPT !.pc = "saved", !.health = NoObj, !.status = 0,
                      !.updates = q.updates + 1]
  IN /\ Ready(r, "recordFailure")
     /\ Ran(r, q2)
     /\ globalHealthCache' = cache1
     /\ heap' = Collect(cache1, [req EXCEPT ![r] = q2], heap1)
     /\ UNCHANGED <<now, outcomes, arrivals, slots, driver, stream, conv,
                 parsed>>

\* recordFailure after `await this.saveHealth(...)`: it returns
Saved(r) ==
  /\ Ready(r, "saved")
  /\ Ran(r, [req[r] EXCEPT !.pc = "failed"])
  /\ UNCHANGED <<now, globalHealthCache, heap, outcomes, arrivals, slots,
                 driver, stream, conv,
                 parsed>>

\* tryEndpoints after `await manager.recordFailure(...)`
Failed(r) ==
  /\ Ready(r, "failed")
  /\ Ran(r, afterFailure(req[r]))
  /\ UNCHANGED <<now, globalHealthCache, heap, outcomes, arrivals, slots,
                 driver, stream, conv,
                 parsed>>

\* recordSuccess after its first await, then the success result and the
\* response of the handler
RecordSuccess(r) ==
  LET q == req[r]
      key == getHealthKey(q.currentIndex, q.baseUrlIndex)
      n == Fresh(globalHealthCache, req)
      cache1 == IF needsReset(heap[q.health])
                  THEN [globalHealthCache EXCEPT ![key] = n]
                  ELSE globalHealthCache
      heap1 == IF needsReset(heap[q.health])
                 THEN [heap EXCEPT ![n] = ResetHealth]
                 ELSE heap
      q2 == respond([q EXCEPT !.updates = q.updates + 1])
  IN /\ Ready(r, "recordSuccess")
     /\ Ran(r, q2)
     /\ globalHealthCache' = cache1
     /\ heap' = Collect(cache1, [req EXCEPT ![r] = q2], heap1)
     /\ UNCHANGED <<now, outcomes, arrivals, slots, driver, stream, conv,
                 parsed>>

\* ---- the health manager called by one caller, call after call ----------
InitHealth ==
  /\ Idle
  /\ stream = IdleStream
  /\ conv = IdleConv
  /\ parsed = IdleParse
  /\ slots = {}
  /\ StoreWith([k \in Keys |-> 0])

\* gap: time since the previous failure recorded on the key
Called(op, key) ==
  [driver EXCEPT !.lastCall = <<op, key>>, !.ncalls = driver.ncalls + 1,
                 !.gap = IF driver.streak[key] > 0
                           THEN now - driver.lastFailAt[key]
                           ELSE 0]

\* await manager.recordFailure(endpointIndex, baseUrlIndex), to completion
CallRecordFailure(key) ==
  LET o == getHealth(req, key[1], key[2])
      heap1 == [heap EXCEPT ![o] = failed(heap[o], now)]
      cache1 == [globalHealthCache EXCEPT ![getHealthKey(key[1], key[2])] = o]
  IN /\ driver.ncalls < MaxCalls
     /\ globalHealthCache' = cache1
     /\ heap' = Collect(cache1, req, heap1)
     /\ driver' = [Called("recordFailure", key) EXCEPT
                     !.streak[key] = driver.streak[key] + 1,
                     !.lastFailAt[key] = now]
     /\ UNCHANGED <<now, req, calls, outcomes, arrivals, slots, queue,
                    draining, stream, conv,
                 parsed>>

\* await manager.recordSuccess(endpointIndex, baseUrlIndex), to completion
CallRecordSuccess(key) ==
  LET o == getHealth(req, key[1], key[2])
      n == Fresh(globalHealthCache, req)
      cache1 == IF needsReset(heap[o])
                  THEN [globalHealthCache EXCEPT
                          ![getHealthKey(key[1], key[2])] = n]
                  ELSE globalHealthCache
      heap1 == IF needsReset(heap[o])
                 THEN [heap EXCEPT ![n] = ResetHealth]
                 ELSE heap
  IN /\ driver.ncalls < MaxCalls
     /\ globalHealthCache' = cache1
     /\ heap' = Collect(cache1, req, heap1)
     /\ driver' = [Called("recordSuccess", key) EXCEPT !.streak[key] = 0]
     /\ UNCHANGED <<now, req, calls, outcomes, arrivals, slots, queue,
                    draining, stream, conv,
                 parsed>>

HealthTick ==
  /\ now + TickStep <= StartTime + HealthTicks * TickStep
  /\ now' = now + TickStep
  /\ UNCHANGED <<globalHealthCache, heap, req, calls, outcomes, arrivals,
                 slots, queue, draining, driver, stream, conv,
                 parsed>>

NextHealth ==
  \/ \E key \in Keys : CallRecordFailure(key)
  \/ \E key \in Keys : CallRecordSuccess(key)
  \/ HealthTick

SpecHealth == InitHealth /\ [][NextHealth]_vars

\* ---- a backend that recovers ----------------------------------------------
\* from now on every backend call to the key succeeds; the clock of the
\* model runs at least a cooldown window further
Recover(key) ==
  /\ driver.recovered = {}
  /\ now + COOLDOWN_TIME * 1000 <= StartTime + HealthTicks * TickStep
  /\ driver' = [driver EXCEPT !.recovered = {key}]
  /\ UNCHANGED <<now, globalHealthCache, heap, req, calls, outcomes, arrivals,
                 slots, queue, draining, stream, conv,
                 parsed>>

\* a backend call to a key that has not recovered fails
FailingCall(key) == key \notin driver.recovered /\ CallRecordFailure(key)

\* the keys called: the sources of the first endpoint
RecoverKeys == {key \in Keys : key[1] = 0}

NextRecover ==
  \/ \E key \in RecoverKeys : FailingCall(key)
  \/ \E key \in RecoverKeys : CallRecordSuccess(key)
  \/ \E key \in RecoverKeys : Recover(key)
  \/ HealthTick

\* time keeps advancing and calls keep being made
SpecRecover ==
  /\ InitHealth
  /\ [][NextRecover]_vars
  /\ WF_vars(HealthTick)
  /\ WF_vars(\E key \in RecoverKeys : CallRecordSuccess(key))

\* ---- the transcoder reading its input ------------------------------------
InitStream ==
  /\ Idle
  /\ conv = IdleConv
  /\ parsed = IdleParse
  /\ slots = {}
  /\ StoreWith([k \in Keys |-> 0])
  /\ \E u \in Upstreams :
       stream = [IdleStream EXCEPT !.upstream = u, !.state = "reading"]

StreamStep(st) ==
  /\ stream' = st
  /\ UNCHANGED <<now, globalHealthCache, heap, req, calls, outcomes, arrivals,
                 slots, queue, draining, driver, conv,
                 parsed>>

\* reader.read() yields the next n tokens of the input
ReadChunk(n) ==
  /\ stream.state = "reading"
  /\ stream.received + n <= Len(stream.upstream)
  /\ StreamStep(onChunk(stream, SubSeq(stream.upstream, stream.received + 1,
                                       stream.received + n)))

ReadDoneFlushes ==
  /\ stream.state = "reading"
  /\ stream.received = Len(stream.upstream)
  /\ StreamStep([convertLine(stream, stream.buffer) EXCEPT !.state = "closed"])

\* reader.read() yields done: controller.close()
ReadDone ==
  /\ stream.state = "reading"
  /\ stream.received = Len(stream.upstream)
  /\ StreamStep([stream EXCEPT !.state = "closed"])

\* reader.read() rejects: the outer catch, controller.error(error)
ReadError ==
  /\ stream.state = "reading"
  /\ StreamStep([stream EXCEPT !.state = "errored", !.failed = TRUE])

NextStream ==
  \/ \E n \in 1..Len(stream.upstream) : ReadChunk(n)
  \/ ReadDone
  \/ ReadError

SpecStream == InitStream /\ [][NextStream]_vars

\* ---- the request translation applied to an argument ----------------------
InitConvert ==
  /\ Idle
  /\ stream = IdleStream
  /\ parsed = IdleParse
  /\ slots = {}
  /\ StoreWith([k \in Keys |-> 0])
  /\ \E o \in OpenAIRequests :
       conv = [openaiRequest |-> o, claudeRequest |-> Undefined,
               state |-> "called"]

Convert ==
  /\ conv.state = "called"
  /\ conv' = [conv EXCEPT !.claudeRequest = convertOpenAIToClaude(conv.openaiRequest),
                          !.state = "returned"]
  /\ UNCHANGED <<now, globalHealthCache, heap, req, calls, outcomes, arrivals,
                 slots, queue, draining, driver, stream,
                 parsed>>

NextConvert == Convert

SpecConvert == InitConvert /\ [][NextConvert]_vars

\* convertOpenAIToClaude on message lists of every kind of content
InitMessages ==
  /\ Idle
  /\ stream = IdleStream
  /\ parsed = IdleParse
  /\ slots = {}
  /\ StoreWith([k \in Keys |-> 0])
  /\ \E o \in MessageLists :
       conv = [openaiRequest |-> o, claudeRequest |-> Undefined,
               state |-> "called"]

SpecMessages == InitMessages /\ [][NextConvert]_vars

\* ---- parseRequestPath called on a path ------------------------------------
InitPath ==
  /\ Idle
  /\ stream = IdleStream
  /\ conv = IdleConv
  /\ slots = {}
  /\ StoreWith([k \in Keys |-> 0])
  /\ \E pathname \in AnyPathnames :
       parsed = [pathname |-> pathname, hint |-> NoHint, state |-> "called"]

Parse ==
  /\ parsed.state = "called"
  /\ parsed' = [parsed EXCEPT !.hint = parseRequestPath(parsed.pathname),
                              !.state = "returned"]
  /\ UNCHANGED <<now, globalHealthCache, heap, req, calls, outcomes, arrivals,
                 slots, queue, draining, driver, stream, conv>>

NextPath == Parse

SpecPath == InitPath /\ [][NextPath]_vars

\* requests that are answered at once or forwarded in the native dialect
UntranslatedRequests ==
  {request \in InboundRequests :
     handle(request).pc = "done" \/ ~handle(request).isOpenAI}

DefaultRequest == [method |-> "POST", pathname |-> MessagesPath, body |-> "object"]

Next ==
  \/ Tick
  \/ \E r \in Requests :
       Accepting(r) /\ \E request \in UntranslatedRequests : Arrive(r, request)
  \/ \E r \in Requests : Start(r)
  \/ \E r \in Requests : IsAvailable(r)
  \/ \E r \in Requests : Scan(r)
  \/ \E r \in Requests : \E s \in Statuses : RespondStatus(r, s)
  \/ \E r \in Requests : RespondThrow(r)
  \/ \E r \in Requests : Answered(r)
  \/ \E r \in Requests : RecordFailure(r)
  \/ \E r \in Requests : Saved(r)
  \/ \E r \in Requests : Failed(r)
  \/ \E r \in Requests : RecordSuccess(r)

Spec == Init /\ [][Next]_vars

NextConc ==
  \/ \E r \in Requests : Arrive(r, DefaultRequest)
  \/ \E r \in Requests : Start(r)
  \/ \E r \in Requests : IsAvailable(r)
  \/ \E r \in Requests : Scan(r)
  \/ \E r \in Requests : \E s \in Statuses : RespondStatus(r, s)
  \/ \E r \in Requests : RespondThrow(r)
  \/ \E r \in Requests : Answered(r)
  \/ \E r \in Requests : RecordFailure(r)
  \/ \E r \in Requests : Saved(r)
  \/ \E r \in Requests : Failed(r)
  \/ \E r \in Requests : RecordSuccess(r)

SpecConc == InitConc /\ [][NextConc]_vars

\* concurrent requests on a store whose record of the first key is in
\* cooldown, its last failure COOLDOWN_TIME seconds or more before now
InitProbation ==
  /\ now = StartTime + TickStep
  /\ req = [r \in Requests |-> IdleReq]
  /\ calls = [r \in Requests |-> <<>>]
  /\ outcomes = [r \in Requests |-> <<>>]
  /\ arrivals = 0
  /\ queue = <<>>
  /\ draining = FALSE
  /\ driver = [streak |-> [k \in Keys |-> 0], lastFailAt |-> [k \in Keys |-> 0],
               lastCall |-> <<"none", <<0, 0>>>>, gap |-> 0, ncalls |-> 0,
               recovered |-> {}]
  /\ stream = IdleStream
  /\ conv = IdleConv
  /\ parsed = IdleParse
  /\ slots = {1, 2}
  /\ StoreWith([k \in Keys |-> IF k = <<0, 0>> THEN MAX_FAILURES ELSE 0])

SpecProbation == InitProbation /\ [][NextConc]_vars

\* one request on a store whose keys are each absent or in cooldown; every
\* ready continuation runs and every backend call returns or throws
InitProgress ==
  /\ Idle
  /\ stream = IdleStream
  /\ conv = IdleConv
  /\ parsed = IdleParse
  /\ slots = {1}
  /\ \E f \in [Keys -> {0, MAX_FAILURES}] : StoreWith(f)

NextProgress ==
  \/ \E r \in Requests :
       Accepting(r) /\ \E request \in UntranslatedRequests : Arrive(r, request)
  \/ \E r \in Requests : Start(r)
  \/ \E r \in Requests : IsAvailable(r)
  \/ \E r \in Requests : Scan(r)
  \/ \E r \in Requests : \E s \in Statuses : RespondStatus(r, s)
  \/ \E r \in Requests : RespondThrow(r)
  \/ \E r \in Requests : Answered(r)
  \/ \E r \in Requests : RecordFailure(r)
  \/ \E r \in Requests : Saved(r)
  \/ \E r \in Requests : Failed(r)
  \/ \E r \in Requests : RecordSuccess(r)

SpecProgress ==
  /\ InitProgress
  /\ [][NextProgress]_vars
  /\ WF_vars(\E r \in Requests : Start(r))
  /\ WF_vars(\E r \in Requests : IsAvailable(r))
  /\ WF_vars(\E r \in Requests : Scan(r))
  /\ WF_vars(\E r \in Requests : \E s \in Statuses : RespondStatus(r, s))
  /\ WF_vars(\E r \in Requests : Answered(r))
  /\ WF_vars(\E r \in Requests : RecordFailure(r))
  /\ WF_vars(\E r \in Requests : Saved(r))
  /\ WF_vars(\E r \in Requests : Failed(r))
  /\ WF_vars(\E r \in Requests : RecordSuccess(r))

\* one request at a time of any method, path and body, backend responses of
\* any content type and body, any health store
NextFetch ==
  \/ \E r \in Requests :
       Accepting(r) /\ \E request \in InboundRequests : Arrive(r, request)
  \/ \E r \in Requests : Start(r)
  \/ \E r \in Requests : IsAvailable(r)
  \/ \E r \in Requests : Scan(r)
  \/ \E r \in Requests : \E response \in BackendResponses : Respond(r, response)
  \/ \E r \in Requests : RespondThrow(r)
  \/ \E r \in Requests : Answered(r)
  \/ \E r \in Requests : RecordFailure(r)
  \/ \E r \in Requests : Saved(r)
  \/ \E r \in Requests : Failed(r)
  \/ \E r \in Requests : RecordSuccess(r)

SpecFetch == Init /\ [][NextFetch]_vars

\* ========================================================================
\* Properties
\* ========================================================================
Window == COOLDOWN_TIME * 1000

Times == {StartTime + n * TickStep : n \in 0..(HealthTicks + 2)}

Stored(key) == globalHealthCache[key] # NoObj

Record(key) == healthOf(key[1], key[2])

\* C1: after MAX_FAILURES consecutive recordFailure calls on a key with no
\* recordSuccess in between, isAvailable is false at once and at every time
\* less than the cooldown window after the most recent failure; below the
\* threshold isAvailable is true.
CooldownAfterThreshold ==
  \A key \in Keys :
    /\ (driver.streak[key] >= MAX_FAILURES /\ now - driver.lastFailAt[key] < Window)
         => ~isAvailable(key[1], key[2])
    /\ driver.streak[key] < MAX_FAILURES => isAvailable(key[1], key[2])

\* a key whose third failure came later than its first, seen one tick after
CooldownAfterThresholdWitness ==
  \E key \in Keys :
    /\ driver.streak[key] = MAX_FAILURES
    /\ driver.lastFailAt[key] > StartTime
    /\ now > driver.lastFailAt[key]
    /\ now - driver.lastFailAt[key] < Window
    /\ ~isAvailable(key[1], key[2])

\* C2: once the window has elapsed since the last failure of a key in
\* cooldown, isAvailable is true and the stored failures and inCooldown are
\* as the last failure left them; a success recorded next makes the record
\* {0, 0, false}; a failure recorded next adds one to failures, keeps
\* inCooldown, and isAvailable is false for a full window from that failure.
ProbationStep ==
  \A key \in Keys :
    LET h == Record(key)
        next == driver'.ncalls # driver.ncalls
    IN (driver.streak[key] >= MAX_FAILURES /\ now - driver.lastFailAt[key] >= Window)
         => /\ isAvailable(key[1], key[2])
            /\ h.inCooldown
            /\ h.failures = driver.streak[key]
            /\ (next /\ driver'.lastCall = <<"recordSuccess", key>>)
                 => Record(key)' = [failures |-> 0, lastFailTime |-> 0,
                                    inCooldown |-> FALSE]
            /\ (next /\ driver'.lastCall = <<"recordFailure", key>>)
                 => /\ Record(key)'.failures = h.failures + 1
                    /\ Record(key)'.inCooldown
                    /\ Record(key)'.lastFailTime = now'
                    /\ \A t \in Times :
                         (t >= now' /\ t - now' < Window)
                           => ~available(Record(key)', t)

ProbationSequence == [][ProbationStep]_vars

\* a failure recorded on a key whose window had elapsed
ProbationSequenceWitness ==
  \E key \in Keys :
    /\ driver.lastCall = <<"recordFailure", key>>
    /\ driver.streak[key] > MAX_FAILURES
    /\ driver.gap >= Window
    /\ Record(key).failures > MAX_FAILURES

\* C3: within one request no (endpoint, source) pair is called twice, so no
\* endpoint is selected twice.
NoRepeatedCall ==
  \A r \in Requests :
    \A m, n \in DOMAIN calls[r] : m < n => calls[r][m] # calls[r][n]

\* a request with a preferred endpoint that has called every pair
NoRepeatedCallWitness ==
  \E r \in Requests :
    /\ Len(calls[r]) = NumEndpoints * NumSources
    /\ req[r].preferredEndpoint > 0

AllFailed(r) == \A n \in DOMAIN outcomes[r] : outcomes[r][n] = 0

\* C4: a request all of whose backend calls fail ends with the 503
\* exhaustion response, after exactly one call to every (endpoint, source)
\* pair; the exhaustion response is given in no other case.
ExhaustionAfterAllPairs ==
  \A r \in Requests :
    (req[r].pc = "done" /\ req[r].routed) =>
      /\ AllFailed(r) <=> req[r].response = 503
      /\ req[r].response = 503 =>
           /\ ~req[r].success
           /\ Len(calls[r]) = NumEndpoints * NumSources
           /\ {calls[r][n] : n \in DOMAIN calls[r]} = Keys

\* exhaustion of a request with a preferred endpoint
ExhaustionAfterAllPairsWitness ==
  \E r \in Requests :
    /\ req[r].pc = "done"
    /\ req[r].response = 503
    /\ req[r].preferredEndpoint > 0
    /\ Len(outcomes[r]) = NumEndpoints * NumSources

\* C5: the first backend call with status < 400 is the last call of the
\* request, and its response is the result.
FirstSuccessEnds ==
  \A r \in Requests :
    \A n \in DOMAIN outcomes[r] :
      outcomes[r][n] # 0 =>
        /\ n = Len(calls[r])
        /\ req[r].pc \in {"answered", "recordSuccess", "done"}
        /\ req[r].pc = "done" =>
             /\ req[r].success
             /\ req[r].response = outcomes[r][n]
             /\ <<req[r].currentIndex, req[r].baseUrlIndex>> = calls[r][n]

\* a request that succeeded after failures and left pairs uncalled
FirstSuccessEndsWitness ==
  \E r \in Requests :
    /\ req[r].pc = "done"
    /\ req[r].success
    /\ Len(calls[r]) > 1
    /\ Len(calls[r]) < NumEndpoints * NumSources

\* C6: when every key is available as the request arrives, its first
\* backend call goes to the preferred endpoint, or to endpoint 0 when none
\* is preferred, through source 0.
HealthyFirstCall ==
  \A r \in Requests :
    (req[r].healthy /\ calls[r] # <<>>) =>
      calls[r][1] = <<IF req[r].preferredEndpoint = NoIndex
                        THEN 0
                        ELSE req[r].preferredEndpoint, 0>>

\* a first call to a preferred endpoint other than 0
HealthyFirstCallWitness ==
  \E r \in Requests :
    /\ req[r].healthy
    /\ req[r].preferredEndpoint > 0
    /\ calls[r] # <<>>

\* C7: the response of a routed request is the response of its last backend
\* call when that call had status < 400, and the 503 exhaustion response
\* otherwise; a failed call is followed by another call or by exhaustion.
NoFailedResponse ==
  \A r \in Requests :
    LET n == Len(outcomes[r])
    IN /\ (req[r].pc = "done" /\ req[r].routed) =>
            IF n > 0 /\ outcomes[r][n] # 0
              THEN req[r].response = outcomes[r][n] /\ req[r].response < 400
              ELSE req[r].response = 503
       /\ \A m \in DOMAIN outcomes[r] :
            outcomes[r][m] = 0 =>
              \/ m < Len(calls[r])
              \/ req[r].pc \in {"answered", "recordFailure", "saved", "failed",
                                "isAvailable", "scan"}
              \/ req[r].pc = "done" /\ req[r].response = 503

\* a success returned after a failed call
NoFailedResponseWitness ==
  \E r \in Requests :
    /\ req[r].pc = "done"
    /\ req[r].success
    /\ \E m \in DOMAIN outcomes[r] : outcomes[r][m] = 0

\* C8: a stored record loses failures or leaves cooldown only in a
\* recordSuccess on its key, which leaves exactly {0, 0, false}.
MonotoneStep ==
  \A key \in Keys :
    LET h == Record(key)
    IN (Record(key)'.failures < h.failures
          \/ (h.inCooldown /\ ~Record(key)'.inCooldown))
         => /\ \E r \in Requests :
                 /\ Ready(r, "recordSuccess")
                 /\ getHealthKey(req[r].currentIndex, req[r].baseUrlIndex) = key
                 /\ req'[r].pc = "done"
            /\ Record(key)' = [failures |-> 0, lastFailTime |-> 0,
                               inCooldown |-> FALSE]

MonotoneUnlessSuccess == [][MonotoneStep]_vars

\* a success has reset a key while another request still holds the old
\* record of that key for its recordFailure
MonotoneUnlessSuccessWitness ==
  \E key \in Keys : \E r \in Requests :
    /\ Stored(key)
    /\ Record(key).failures = 0
    /\ req[r].pc = "recordFailure"
    /\ getHealthKey(req[r].currentIndex, req[r].baseUrlIndex) = key
    /\ heap[req[r].health].failures > 0

\* C9: every stored record has failures >= 0 and is in cooldown exactly
\* when failures >= MAX_FAILURES.
RecordWellFormed ==
  \A key \in Keys :
    Stored(key) =>
      /\ Record(key).failures >= 0
      /\ Record(key).inCooldown <=> Record(key).failures >= MAX_FAILURES

\* a record in cooldown next to a record that was reset
RecordWellFormedWitness ==
  /\ \E key \in Keys : Stored(key) /\ Record(key).inCooldown
  /\ \E key \in Keys : Stored(key) /\ Record(key).failures = 0

\* C10 as stated: no backend call goes to a key that is in cooldown with
\* the window not elapsed.
NeverCallsCoolingKey ==
  \A r \in Requests :
    req[r].pc = "call" => isAvailable(req[r].currentIndex, req[r].baseUrlIndex)

\* C10, amended: a backend call goes to a key that is in cooldown with the
\* window not elapsed only when the primary scan found every source of
\* every untried endpoint unavailable, or found another source of the same
\* endpoint available.
CoolingKeyCalledOnlyWhen ==
  \A r \in Requests :
    LET q == req[r]
    IN (q.pc = "call" /\ ~isAvailable(q.currentIndex, q.baseUrlIndex)) =>
         IF q.fallback
           THEN \A j \in ENDPOINTS :
                  (j = q.currentIndex \/ j \notin q.triedEndpoints)
                    => \A b \in TARGET_BASE_URLS : <<j, b>> \in q.unavail
           ELSE /\ q.found \in TARGET_BASE_URLS
                /\ q.found # q.baseUrlIndex
                /\ <<q.currentIndex, q.found>> \notin q.unavail

\* the preferred endpoint is called in cooldown because nothing is available
CoolingKeyCalledOnlyWhenWitness ==
  \E r \in Requests :
    /\ req[r].pc = "call"
    /\ req[r].fallback
    /\ req[r].preferredEndpoint > 0
    /\ ~isAvailable(req[r].currentIndex, req[r].baseUrlIndex)

\* position of endpoint j in the walk startIndex..N-1, 0..startIndex-1
Rank(startIndex, j) == (j - startIndex + NumEndpoints) % NumEndpoints

\* C11 as stated: with a preferred endpoint p the endpoints are attempted
\* in the order p, p+1, ..., N-1, 0, ..., p-1: when an endpoint is called,
\* the endpoints called so far are exactly those up to it in that order.
PreferredOrderAlways ==
  \A r \in Requests :
    req[r].preferredEndpoint # NoIndex =>
      \A n \in DOMAIN calls[r] :
        {calls[r][m][1] : m \in 1..n} =
          {j \in ENDPOINTS : Rank(req[r].preferredEndpoint, j)
                               <= Rank(req[r].preferredEndpoint, calls[r][n][1])}

\* C11, amended: an endpoint earlier in the order p, ..., N-1, 0, ..., p-1
\* than the endpoint being called has been attempted already or was passed
\* over because the scan found none of its sources available; when every
\* key was available as the request arrived the order is exactly
\* p, ..., N-1, 0, ..., p-1.
PreferredOrderAmongAvailable ==
  \A r \in Requests :
    LET q == req[r]
    IN (q.preferredEndpoint # NoIndex /\ q.pc = "call") =>
         /\ \A j \in ENDPOINTS :
              Rank(q.startIndex, j) < Rank(q.startIndex, q.currentIndex)
                => \/ j \in q.triedEndpoints
                   \/ \A b \in TARGET_BASE_URLS : <<j, b>> \in q.unavail
         /\ q.healthy =>
              \A n \in DOMAIN calls[r] :
                {calls[r][m][1] : m \in 1..n} =
                  {j \in ENDPOINTS : Rank(q.preferredEndpoint, j)
                                       <= Rank(q.preferredEndpoint, calls[r][n][1])}

\* an endpoint before the preferred one is called while the preferred one,
\* in cooldown, has not been attempted
PreferredOrderAmongAvailableWitness ==
  \E r \in Requests :
    /\ req[r].pc = "call"
    /\ req[r].preferredEndpoint > 0
    /\ req[r].currentIndex < req[r].preferredEndpoint
    /\ ~req[r].fallback
    /\ req[r].preferredEndpoint \notin req[r].triedEndpoints

InCooldown(key) == Stored(key) /\ Record(key).inCooldown

\* C12: a request other than OPTIONS whose path is or ends with /v1/models
\* is answered 200 with the model list, whatever precedes /v1/models in the
\* path; no backend call is made, no continuation is left to make one, and
\* the health store is unchanged.
CatalogStep ==
  \A r \in Requests : \A request \in InboundRequests :
    (/\ request.method # "OPTIONS"
     /\ Len(request.pathname) >= 2
     /\ SubSeq(request.pathname, Len(request.pathname) - 1,
               Len(request.pathname)) = <<"v1", "models">>
     /\ Arrive(r, request))
      => /\ req'[r].pc = "done"
         /\ req'[r].response = 200
         /\ req'[r].responseBody = "models"
         /\ calls'[r] = <<>>
         /\ queue' = queue
         /\ UNCHANGED <<globalHealthCache, heap>>

CatalogAnswered == [][CatalogStep]_vars

\* the model list has been returned while a key is in cooldown
CatalogAnsweredWitness ==
  \E r \in Requests :
    /\ req[r].pc = "done"
    /\ req[r].responseBody = "models"
    /\ calls[r] = <<>>
    /\ \E key \in Keys : InCooldown(key)

\* C13: a POST on a compat chat path whose body is not JSON, or is JSON
\* that cannot be translated, is answered 400 invalid_request_error; no
\* backend call is made, no health record is held or changed.
InvalidBodyStep ==
  \A r \in Requests : \A request \in InboundRequests :
    (/\ request.method = "POST"
     /\ request.body \in {"text", "null"}
     /\ Len(request.pathname) >= 3
     /\ SubSeq(request.pathname, Len(request.pathname) - 2,
               Len(request.pathname)) = <<"v1", "chat", "completions">>
     /\ Arrive(r, request))
      => /\ req'[r].pc = "done"
         /\ req'[r].response = 400
         /\ req'[r].responseBody = "invalid_request_error"
         /\ req'[r].health = NoObj
         /\ calls'[r] = <<>>
         /\ queue' = queue
         /\ UNCHANGED <<globalHealthCache, heap>>

InvalidBodyRejected == [][InvalidBodyStep]_vars

\* a request has been rejected for its body while a key is in cooldown
InvalidBodyRejectedWitness ==
  \E r \in Requests :
    /\ req[r].pc = "done"
    /\ req[r].response = 400
    /\ req[r].responseBody = "invalid_request_error"
    /\ \E key \in Keys : InCooldown(key)

\* C14: when the translation of a successful backend response throws, the
\* caller receives the backend response itself, with its status.
UntranslatedPassThrough ==
  \A r \in Requests :
    (req[r].pc = "done" /\ req[r].translation = "threw") =>
      /\ req[r].response = outcomes[r][Len(outcomes[r])]
      /\ req[r].responseBody = "backend"

\* C19: the debug headers of a response name the (endpoint, source) pair of
\* the last backend call of the request, which is the only call with
\* status < 400; every response built from a backend response carries them.
DebugHeadersNameLastCall ==
  \A r \in Requests :
    LET q == req[r]
        n == Len(calls[r])
    IN /\ (q.pc = "done" /\ q.headers # NoHeaders) =>
            /\ q.success
            /\ n > 0 /\ Len(outcomes[r]) = n
            /\ <<q.headers.endpointIndex, q.headers.baseUrlIndex>> = calls[r][n]
            /\ outcomes[r][n] # 0
            /\ \A m \in 1..(n - 1) : outcomes[r][m] = 0
       /\ (q.pc = "done" /\ q.success /\ q.responseBody # "internal_error")
            => q.headers # NoHeaders

\* a compat request answered by the second source of an endpoint other
\* than the first one called
DebugHeadersNameLastCallWitness ==
  \E r \in Requests :
    /\ req[r].pc = "done"
    /\ req[r].isOpenAI
    /\ req[r].headers.baseUrlIndex = 1
    /\ Len(calls[r]) > NumSources
    /\ req[r].headers.endpointIndex # calls[r][1][1]

\* C20 as stated: the translation marker is present exactly when the body
\* returned was converted to the compat format.
FormatMarkerIffConverted ==
  \A r \in Requests :
    (req[r].pc = "done" /\ req[r].routed) =>
      (req[r].headers.formatConversion
         <=> req[r].responseBody \in {"converted", "convertedStream"})

\* C20, amended: on a response built from a backend response the marker is
\* present exactly when the request came on a compat path, converted body
\* or not; a converted body always comes with the marker; the error
\* responses of the worker carry no marker.
FormatMarkerIffCompat ==
  \A r \in Requests :
    LET q == req[r]
    IN q.pc = "done" =>
         /\ q.headers # NoHeaders => (q.headers.formatConversion <=> q.isOpenAI)
         /\ q.responseBody \in {"converted", "convertedStream"}
              => q.headers.formatConversion
         /\ q.headers = NoHeaders => ~q.headers.formatConversion

\* a compat request answered with the backend body as it came, and marked
FormatMarkerIffCompatWitness ==
  \E r \in Requests :
    /\ req[r].pc = "done"
    /\ req[r].isOpenAI
    /\ req[r].responseBody = "backend"
    /\ req[r].headers.formatConversion

\* the complete lines the transcoder has been given so far
Processed ==
  LET lines == split(SubSeq(stream.upstream, 1, stream.received))
  IN SubSeq(lines, 1, Len(lines) - 1)

Count(seq, S) == Cardinality({i \in DOMAIN seq : seq[i] \in S})

ExpectedExchange ==
  << [kind |-> "chunk", role |-> "assistant", content |-> "",
      finish_reason |-> "null"],
     [kind |-> "chunk", role |-> "none", content |-> "Hi",
      finish_reason |-> "null"],
     [kind |-> "chunk", role |-> "none", content |-> "none",
      finish_reason |-> "stop"],
     [kind |-> "done", role |-> "none", content |-> "none",
      finish_reason |-> "none"] >>

\* C15: for the input message_start, text delta "Hi", stop reason end_turn,
\* message_stop, with content_block_start, content_block_stop, ping and
\* unknown events anywhere in between, the outputs are the role chunk, the
\* content chunk, the finish chunk "stop" and the done sentinel, in this
\* order and nothing else.
ExchangeTranscoded ==
  stream.upstream \in Exchanges =>
    /\ Len(stream.emitted) <= 4
    /\ stream.emitted = SubSeq(ExpectedExchange, 1, Len(stream.emitted))
    /\ stream.received = Len(stream.upstream) => stream.emitted = ExpectedExchange

\* the exchange with an event in every gap has been transcoded
ExchangeTranscodedWitness ==
  /\ stream.upstream \in Exchanges
  /\ Len(stream.upstream) = 27
  /\ stream.state = "closed"
  /\ stream.emitted = ExpectedExchange

\* C16 as stated: after the done sentinel of a message_stop no output is
\* emitted for any later input.
TerminalAfterStop == stream.late = 0

EmittingLines ==
  {<<"data: ", p>> : p \in {"message_start", "text_delta", "end_turn",
                            "max_tokens", "error", "message_stop", "[DONE]"}}

\* C16, amended: message_stop makes the transcoder emit the done sentinel
\* and nothing more, but it is not terminal: every data line given to the
\* transcoder, before or after a message_stop, gets its output (one per
\* message_start, text delta, stop reason, error, message_stop and [DONE]
\* line, one done sentinel per message_stop or [DONE] line), and the output
\* is closed only when the input has ended.
StopNotTerminal ==
  /\ Len(stream.emitted) = Count(Processed, EmittingLines)
  /\ Count(stream.emitted, {ExpectedExchange[4]})
       = Count(Processed, {<<"data: ", "message_stop">>, <<"data: ", "[DONE]">>})
  /\ stream.state = "closed" => stream.received = Len(stream.upstream)

\* a content chunk has been emitted after the done sentinel of message_stop
StopNotTerminalWitness ==
  /\ stream.state = "closed"
  /\ stream.stopped
  /\ stream.late > 0
  /\ stream.emitted[Len(stream.emitted)].kind = "chunk"

MalformedLines ==
  {<<"data: ", "{">>, <<"data: ", "message_start_bare">>}

\* C17: a data line whose payload fails to parse or to convert gives no
\* output and does not error the output: the output is what the same lines
\* without the malformed ones give, and the output is in error only when
\* reading the input failed.
MalformedSkipped ==
  /\ stream.emitted =
       convertLines([IdleStream EXCEPT !.state = "reading"],
                    SelectSeq(Processed, LAMBDA l : l \notin MalformedLines)).emitted
  /\ stream.state = "errored" => stream.failed

\* output for a line that came after a malformed line
MalformedSkippedWitness ==
  /\ stream.state = "closed"
  /\ \E i, j \in DOMAIN Processed :
       /\ i < j
       /\ Processed[i] \in MalformedLines
       /\ Processed[j] = <<"data: ", "text_delta">>
  /\ stream.emitted # <<>>

ExampleRequest ==
  [model |-> Str("m"), max_tokens |-> Num("10"),
   messages |-> Array(<<[role |-> "system", content |-> Str("S")],
                        [role |-> "user", content |-> Str("U")]>>),
   temperature |-> Undefined, top_p |-> Undefined, stream |-> Undefined,
   stop |-> [t |-> "undefined", v |-> "", items |-> <<>>]]

\* C18: the request {model m, messages [system S, user U], max_tokens 10}
\* becomes {model m, max_tokens 10, system S, messages [user U], stream
\* false} and nothing else; a string model and a number max_tokens are
\* kept; stream is a boolean, the one given or else false; no system entry
\* is left in messages.
ConvertedRequest ==
  conv.state = "returned" =>
    LET in == conv.openaiRequest
        out == conv.claudeRequest
    IN /\ in = ExampleRequest =>
            out = [model |-> Str("m"), max_tokens |-> Num("10"),
                   messages |-> Array(<<[role |-> "user", content |-> Str("U")]>>),
                   system |-> Str("S"), temperature |-> Undefined,
                   top_p |-> Undefined, stream |-> Bool(FALSE),
                   stop_sequences |-> NoArray]
       /\ (in.model.t = "string" /\ in.model.v \notin {"undefined", "[undefined]"})
            => out.model = in.model
       /\ in.max_tokens.t = "number" => out.max_tokens = in.max_tokens
       /\ out.stream.t = "boolean"
       /\ out.stream = IF in.stream.t = "boolean" THEN in.stream ELSE Bool(FALSE)
       /\ \A i \in DOMAIN out.messages.items :
            out.messages.items[i].role # "system"

\* the example request has been converted
ConvertedRequestWitness ==
  /\ conv.state = "returned"
  /\ conv.openaiRequest = ExampleRequest
  /\ conv.claudeRequest.system = Str("S")

\* the objects requests hold between getHealth and what follows it
Held(r) == req[r].pc \in {"isAvailable", "recordFailure", "recordSuccess"}

\* C21: a lost update is reachable.  Each getHealth on a key that has no
\* stored record yields a new record of its own, and recordFailure stores
\* the record it read with one more failure, whatever has been stored since
\* it read: two requests that read before either writes leave a count that
\* has grown by less than the failures recorded.
LostUpdateStep ==
  /\ \A r \in Requests :
       (Held(r)' /\ req'[r] # req[r]) =>
         \/ \E k \in Keys : globalHealthCache[k] = req'[r].health
         \/ /\ heap'[req'[r].health] = ZeroHealth
            /\ \A r2 \in Requests \ {r} : req[r2].health # req'[r].health
  /\ \A r \in Requests :
       (Ready(r, "recordFailure") /\ req'[r].pc = "saved") =>
         LET key == getHealthKey(req[r].currentIndex, req[r].baseUrlIndex)
         IN /\ Record(key)'.failures = heap[req[r].health].failures + 1
            /\ Record(key)'.failures - Record(key).failures =
                 1 - (Record(key).failures - heap[req[r].health].failures)

LostUpdatePossible == [][LostUpdateStep]_vars

\* two requests have each recorded one failure on the same key of an empty
\* store and the stored count is one
LostUpdatePossibleWitness ==
  \E r1, r2 \in Requests : \E key \in Keys :
    /\ r1 # r2
    /\ arrivals = 2
    /\ \A r \in {r1, r2} :
         /\ calls[r] = <<key>>
         /\ outcomes[r] = <<0>>
         /\ req[r].pc = "saved"
    /\ Record(key).failures = 1

\* the store by value
StoreValueOf(k) == <<Stored(k), Record(k)>>

StoreValue == [k \in Keys |-> StoreValueOf(k)]

\* C22: a key enters the store only in a recordFailure on it; a
\* recordSuccess on a key whose record is absent or zero leaves the store
\* as it is; isAvailable and getHealth store nothing.
NoRecordWithoutFailureStep ==
  /\ \A key \in Keys :
       (~Stored(key) /\ Stored(key)') =>
         \E r \in Requests :
           /\ Ready(r, "recordFailure")
           /\ getHealthKey(req[r].currentIndex, req[r].baseUrlIndex) = key
           /\ req'[r].pc = "saved"
  /\ \A r \in Requests :
       LET key == getHealthKey(req[r].currentIndex, req[r].baseUrlIndex)
       IN (/\ Ready(r, "recordSuccess")
           /\ req'[r].pc = "done"
           /\ (~Stored(key) \/ Record(key) = ZeroHealth))
            => StoreValue' = StoreValue
  /\ \A r \in Requests :
       (Ready(r, "isAvailable") \/ Ready(r, "scan") \/ Ready(r, "answered"))
         => globalHealthCache' = globalHealthCache /\ StoreValue' = StoreValue

NoRecordWithoutFailure == [][NoRecordWithoutFailureStep]_vars

\* a success has been recorded on a key that is still not in the store,
\* next to a key that is
NoRecordWithoutFailureWitness ==
  \E r \in Requests :
    /\ req[r].pc = "done"
    /\ req[r].success
    /\ ~Stored(<<req[r].currentIndex, req[r].baseUrlIndex>>)
    /\ \E k \in Keys : Stored(k)

\* C23: once every backend call to a key succeeds, and with time advancing,
\* isAvailable for the key becomes true and stays true.
AutomaticRecovery ==
  <>[](\A key \in driver.recovered : isAvailable(key[1], key[2]))

\* a key in cooldown whose backend has recovered is available again with
\* its record still as the last failure left it
AutomaticRecoveryWitness ==
  \E key \in driver.recovered :
    /\ Record(key).inCooldown
    /\ Record(key).failures >= MAX_FAILURES
    /\ now - Record(key).lastFailTime >= Window
    /\ isAvailable(key[1], key[2])

\* C24: every request ends, with a success result or with the exhaustion
\* result, after at most NumEndpoints * NumSources backend calls, also when
\* every key is in cooldown as it arrives; the exhaustion result is given
\* only when every pair has been called.
ForwardProgress ==
  /\ [](\A r \in Requests :
          /\ Len(calls[r]) <= NumEndpoints * NumSources
          /\ (req[r].pc = "done" /\ req[r].routed) =>
               \/ req[r].success
               \/ /\ req[r].response = 503
                  /\ {calls[r][n] : n \in DOMAIN calls[r]} = Keys)
  /\ <>[](\A r \in Requests : req[r].pc \in {"idle", "done"})

\* a request that found every key in cooldown has ended with a success
\* after failed calls
ForwardProgressWitness ==
  \E r \in Requests :
    /\ req[r].pc = "done"
    /\ req[r].success
    /\ Len(calls[r]) > NumSources
    /\ \A key \in Keys : key # calls[r][Len(calls[r])] => InCooldown(key)
    /\ \A n \in 1..NumSources : ~isAvailable(calls[r][n][1], calls[r][n][2])

\* endpoint j has a source that is available now
HasAvailableSource(j) == \E b \in TARGET_BASE_URLS : isAvailable(j, b)

\* the first of the endpoints S in the walk startIndex..N-1, 0..startIndex-1
FirstInWalk(startIndex, S) ==
  CHOOSE j \in S : \A k \in S : Rank(startIndex, j) <= Rank(startIndex, k)

\* C25: the endpoint chosen in an outer iteration is the first untried one,
\* in the walk startIndex..N-1 then 0..startIndex-1, that has a source
\* available at that moment, and the first untried one in that walk when no
\* untried endpoint has an available source; an endpoint without an
\* available source is chosen only when no untried endpoint has one.
FirstAvailableStep ==
  \A r \in Requests :
    LET q == req[r]
        untriedNow == ENDPOINTS \ q.triedEndpoints
        withSource == {j \in untriedNow : HasAvailableSource(j)}
    IN (/\ q.pc \in {"start", "scan", "failed"}
        /\ req'[r].pc = "call"
        /\ req'[r].baseUrlIndex = 0)
         => /\ req'[r].currentIndex =
                 FirstInWalk(req'[r].startIndex,
                             IF withSource # {} THEN withSource ELSE untriedNow)
            /\ req'[r].triedEndpoints = q.triedEndpoints \cup {req'[r].currentIndex}
            /\ ~HasAvailableSource(req'[r].currentIndex) => withSource = {}

SourcesInOrder ==
  \A r \in Requests :
    \A n \in DOMAIN calls[r] :
      /\ calls[r][n][2] = (n - 1) % NumSources
      /\ n > 1 =>
           /\ outcomes[r][n - 1] = 0
           /\ IF calls[r][n][2] = 0
                THEN /\ calls[r][n][1] # calls[r][n - 1][1]
                     /\ \A b \in TARGET_BASE_URLS :
                          /\ calls[r][n - NumSources + b] = <<calls[r][n - 1][1], b>>
                          /\ outcomes[r][n - NumSources + b] = 0
                ELSE calls[r][n] = <<calls[r][n - 1][1], calls[r][n - 1][2] + 1>>

\* a request is calling the last source of its second endpoint
SourcesInOrderWitness ==
  \E r \in Requests :
    /\ req[r].pc = "call"
    /\ Len(calls[r]) = 2 * NumSources
    /\ req[r].baseUrlIndex = NumSources - 1
    /\ calls[r][1][1] # req[r].currentIndex

\* C27 as stated: a backend call goes to a pair that is not available only
\* when its endpoint was chosen by the scan that ignores availability, no
\* untried endpoint having an available source.
UnavailableOnlyInFallback ==
  \A r \in Requests :
    (req[r].pc = "call"
       /\ ~isAvailable(req[r].currentIndex, req[r].baseUrlIndex))
      => req[r].fallback

\* C27, amended: an endpoint is chosen without an available source only
\* when the scan found no available source on any untried endpoint; within
\* a chosen endpoint the sources are called from source 0 on, so a pair
\* that is not available is also called when it is a source of an endpoint
\* chosen for another source, the first one the scan found available.
AvoidsFailingEndpoints ==
  \A r \in Requests :
    LET q == req[r]
        untriedThen == (ENDPOINTS \ q.triedEndpoints) \cup {q.currentIndex}
    IN q.pc = "call" =>
         /\ q.fallback =>
              \A j \in untriedThen : \A b \in TARGET_BASE_URLS :
                <<j, b>> \in q.unavail
         /\ ~q.fallback =>
              /\ q.found \in TARGET_BASE_URLS
              /\ <<q.currentIndex, q.found>> \notin q.unavail
              /\ \A b \in TARGET_BASE_URLS :
                   b < q.found => <<q.currentIndex, b>> \in q.unavail
         /\ ~isAvailable(q.currentIndex, q.baseUrlIndex) =>
              (q.fallback \/ q.baseUrlIndex # q.found)

\* source 0, in cooldown, is called on an endpoint chosen for its source 1
AvoidsFailingEndpointsWitness ==
  \E r \in Requests :
    /\ req[r].pc = "call"
    /\ ~req[r].fallback
    /\ req[r].baseUrlIndex < req[r].found
    /\ ~isAvailable(req[r].currentIndex, req[r].baseUrlIndex)

\* C28: every backend call is followed by one health update, on the key of
\* the call: recordSuccess for a status < 400, recordFailure for a status
\* >= 400 and for a thrown error alike, which stores the record read with
\* one more failure and lastFailTime = now and leaves every other key as it
\* is; the next source is called next.
OneUpdateStep ==
  /\ \A r \in Requests :
       LET q == req[r]
           key == <<q.currentIndex, q.baseUrlIndex>>
           last == Len(calls[r])
       IN /\ q.updates = IF q.pc \in {"call", "answered", "recordFailure",
                                       "recordSuccess"}
                            THEN last - 1
                            ELSE last
          /\ (Ready(r, "recordFailure") /\ req'[r].pc = "saved") =>
               /\ q.status = Thrown \/ q.status >= 400
               /\ outcomes[r][last] = 0
               /\ key = calls[r][last]
               /\ req'[r].updates = q.updates + 1
               /\ Record(key)'.failures = heap[q.health].failures + 1
               /\ Record(key)'.lastFailTime = now
               /\ \A k \in Keys \ {key} : StoreValueOf(k)' = StoreValueOf(k)
          /\ (Ready(r, "recordSuccess") /\ req'[r].pc = "done") =>
               /\ q.status # Thrown /\ q.status < 400
               /\ outcomes[r][last] = q.status
               /\ key = calls[r][last]
               /\ req'[r].updates = q.updates + 1
               /\ \A k \in Keys \ {key} : StoreValueOf(k)' = StoreValueOf(k)
          /\ (Ready(r, "failed") /\ req'[r] # q
                /\ q.baseUrlIndex + 1 < NumSources) =>
               /\ req'[r].pc = "call"
               /\ req'[r].currentIndex = q.currentIndex
               /\ req'[r].baseUrlIndex = q.baseUrlIndex + 1
  /\ (\A r \in Requests :
        ~Ready(r, "recordFailure") /\ ~Ready(r, "recordSuccess"))
       => /\ globalHealthCache' = globalHealthCache
          /\ \A k \in Keys :
               Stored(k) => heap'[globalHealthCache[k]] = heap[globalHealthCache[k]]

OneUpdatePerCall == [][OneUpdateStep]_vars

\* a request has recorded the failures of its first endpoint at different
\* times and then the success of its next call
OneUpdatePerCallWitness ==
  \E r \in Requests :
    /\ req[r].pc = "done"
    /\ req[r].success
    /\ req[r].updates = NumSources + 1
    /\ outcomes[r][NumSources + 1] # 0
    /\ Record(calls[r][1]).lastFailTime < Record(calls[r][NumSources]).lastFailTime

\* C29: isAvailable changes no health record, also when it finds the
\* cooldown window of the key elapsed: the steps of the endpoint-selection
\* scans leave the store, and every stored record, as they are, and the
\* answer is that of the record as stored.
ReadOnlyStep ==
  \A r \in Requests :
    LET q == req[r]
    IN /\ ((Ready(r, "start") \/ Ready(r, "isAvailable") \/ Ready(r, "scan"))
             /\ req'[r] # q)
            => /\ globalHealthCache' = globalHealthCache
               /\ StoreValue' = StoreValue
               /\ \A k \in Keys :
                    Stored(k) => heap'[globalHealthCache[k]] = heap[globalHealthCache[k]]
       /\ (Ready(r, "isAvailable") /\ req'[r] # q) =>
            req'[r].avail = (Record(<<q.i, q.sb>>).inCooldown
                               => now - Record(<<q.i, q.sb>>).lastFailTime >= Window)

IsAvailableReadOnly == [][ReadOnlyStep]_vars

\* isAvailable has answered true for a key in cooldown whose window has
\* elapsed, and the record is still in cooldown
IsAvailableReadOnlyWitness ==
  \E r \in Requests :
    LET key == <<req[r].i, req[r].sb>>
    IN /\ req[r].pc = "scan"
       /\ req[r].avail
       /\ InCooldown(key)
       /\ Record(key).failures >= MAX_FAILURES
       /\ now - Record(key).lastFailTime >= Window

\* distinct pairs of indices have distinct keys in globalHealthCache
KeysDistinct ==
  \A k1, k2 \in (0..(NumEndpoints + 10)) \X (0..(NumSources + 10)) :
    k1 # k2 => formatKey(k1[1], k1[2]) # formatKey(k2[1], k2[2])

\* C30: health records are kept per (endpoint, source) pair: two pairs
\* never have the same key or the same stored object, a recordFailure or
\* recordSuccess changes no record but that of its own key, and a record
\* changes only in the health update of a request whose last backend call
\* went to its pair.
IsolatedStep ==
  /\ KeysDistinct
  /\ \A k1, k2 \in Keys :
       (k1 # k2 /\ Stored(k1) /\ Stored(k2))
         => globalHealthCache[k1] # globalHealthCache[k2]
  /\ \A r \in Requests :
       ((Ready(r, "recordFailure") \/ Ready(r, "recordSuccess"))
          /\ req'[r] # req[r])
         => \A k \in Keys \ {<<req[r].currentIndex, req[r].baseUrlIndex>>} :
              StoreValueOf(k)' = StoreValueOf(k)
  /\ \A k \in Keys :
       StoreValueOf(k)' # StoreValueOf(k) =>
         \E r \in Requests :
           /\ Ready(r, "recordFailure") \/ Ready(r, "recordSuccess")
           /\ req'[r] # req[r]
           /\ calls[r] # <<>>
           /\ calls[r][Len(calls[r])] = k

RecordsIsolated == [][IsolatedStep]_vars

\* two requests have recorded failures on different sources of the same
\* endpoint and each record counts its own
RecordsIsolatedWitness ==
  \E r1, r2 \in Requests :
    /\ r1 # r2
    /\ req[r1].pc = "saved"
    /\ req[r2].pc = "saved"
    /\ calls[r1][Len(calls[r1])][1] = calls[r2][Len(calls[r2])][1]
    /\ calls[r1][Len(calls[r1])][2] # calls[r2][Len(calls[r2])][2]
    /\ Record(calls[r1][Len(calls[r1])]).failures = 1
    /\ Record(calls[r2][Len(calls[r2])]).failures = 1

\* C31: probation is not reserved.  isAvailable answers true for a record
\* in cooldown whose window has elapsed whatever the other requests are
\* doing, and neither the checks of the scan nor the sending of the call
\* change the store: every request that checks the key before an outcome
\* is recorded on it sees it available and calls it.
UnreservedStep ==
  \A r \in Requests :
    /\ (Ready(r, "isAvailable") /\ req'[r].pc = "scan") =>
         LET health == heap[req[r].health]
         IN (/\ health.inCooldown
             /\ now - health.lastFailTime >= COOLDOWN_TIME * 1000)
              => req'[r].avail
    /\ ((Ready(r, "start") \/ Ready(r, "isAvailable") \/ Ready(r, "scan"))
           /\ req'[r] # req[r])
         => \A k \in Keys : StoreValueOf(k)' = StoreValueOf(k)

UnreservedProbation == [][UnreservedStep]_vars

\* two requests have each found the key of the elapsed cooldown available
\* and their calls to it are both pending; no outcome has been recorded
UnreservedProbationWitness ==
  \E r1, r2 \in Requests :
    /\ r1 # r2
    /\ \A r \in {r1, r2} :
         /\ req[r].pc = "call"
         /\ calls[r] = <<(<<0, 0>>)>>
         /\ outcomes[r] = <<>>
         /\ req[r].unavail = {}
    /\ \A r \in Requests : outcomes[r] = <<>>
    /\ Record(<<0, 0>>).inCooldown
    /\ Record(<<0, 0>>).failures = MAX_FAILURES
    /\ now - Record(<<0, 0>>).lastFailTime >= COOLDOWN_TIME * 1000

\* C32: the output does not depend on how the input is cut into chunks.
\* Whatever chunks the input has been read in, the outputs emitted so far
\* are those of the complete lines received so far, converted one after the
\* other in the order of the input, at most one output per line, and the
\* buffer holds the one partial line that follows them.
ChunkingIrrelevant ==
  LET lines == split(SubSeq(stream.upstream, 1, stream.received))
      reading == [IdleStream EXCEPT !.state = "reading"]
  IN /\ stream.emitted = convertLines(reading, Processed).emitted
     /\ \A i \in DOMAIN Processed :
          Len(convertLine(reading, Processed[i]).emitted) <= 1
     /\ stream.buffer = lines[Len(lines)]

\* a chunk has ended inside the second data line, after the prefix: the
\* first line has given its output and the prefix is held back
ChunkingIrrelevantWitness ==
  /\ stream.state = "reading"
  /\ stream.upstream = join(<< <<DataPrefix, "message_start">>,
                               <<DataPrefix, "text_delta">> >>)
  /\ stream.received = 4
  /\ stream.buffer = <<DataPrefix>>
  /\ stream.emitted = <<Chunk("assistant", "", "null")>>

\* C33: the end of the input closes the output without converting the
\* segment held back: the read that yields done emits nothing, so the
\* output of a closed stream is that of the lines that ended in a newline,
\* and a last line without its newline, message_stop or content, is still
\* in the buffer and has given no output.
FinalLineDroppedStep ==
  (stream.state = "reading" /\ stream'.state = "closed") =>
    LET lines == split(stream.upstream)
        reading == [IdleStream EXCEPT !.state = "reading"]
    IN /\ stream.received = Len(stream.upstream)
       /\ stream'.emitted = stream.emitted
       /\ stream'.emitted =
            convertLines(reading, SubSeq(lines, 1, Len(lines) - 1)).emitted
       /\ stream'.buffer = lines[Len(lines)]

FinalLineDropped == [][FinalLineDroppedStep]_vars

\* the input message_start, newline, message_stop without newline has
\* ended: the role chunk is the only output, the message_stop line is in
\* the buffer
FinalLineDroppedWitness ==
  /\ stream.state = "closed"
  /\ stream.upstream = <<DataPrefix, "message_start", NL,
                         DataPrefix, "message_stop">>
  /\ stream.buffer = <<DataPrefix, "message_stop">>
  /\ stream.emitted = <<Chunk("assistant", "", "null")>>
  /\ ~stream.stopped

\* the contents the valid check rejects
InvalidContents ==
  {Undefined, Null, Str("undefined"), Str("[undefined]"),
   [t |-> "array", v |-> "empty"], [t |-> "object", v |-> "empty"]}

\* the positions of the entries of a role in the input messages
Positions(roles) ==
  IF conv.openaiRequest.messages.t = "array"
    THEN {i \in DOMAIN conv.openaiRequest.messages.items :
            conv.openaiRequest.messages.items[i].role \in roles}
    ELSE {}

Last(S) == CHOOSE i \in S : \A j \in S : j <= i

\* the role and content of the entries of the input at the positions S, in
\* order
RECURSIVE Entries(_, _)
Entries(S, from) ==
  IF \A i \in S : i < from THEN <<>>
  ELSE IF from \in S
    THEN <<[role |-> conv.openaiRequest.messages.items[from].role,
            content |-> conv.openaiRequest.messages.items[from].content]>>
           \o Entries(S, from + 1)
    ELSE Entries(S, from + 1)

\* the messages of the result: the user and assistant entries with valid
\* content, in the order of the input
MessagesFiltered ==
  LET items == conv.openaiRequest.messages.items
      kept == {i \in Positions({"user", "assistant"}) :
                 items[i].content \notin InvalidContents}
  IN conv.claudeRequest.messages.items = Entries(kept, 1)

\* C34 as stated: the messages are the user and assistant entries with
\* valid content and system is the content of the last system entry of the
\* input (no system field when that content is not valid).
SystemOfLastSystemMessage ==
  conv.state = "returned" =>
    /\ MessagesFiltered
    /\ LET items == conv.openaiRequest.messages.items
           sys == Positions({"system"})
       IN conv.claudeRequest.system =
            IF sys # {} /\ items[Last(sys)].content \notin InvalidContents
              THEN items[Last(sys)].content
              ELSE Undefined

\* C34, amended: the messages are the user and assistant entries with valid
\* content, in order, entries of any other role are dropped, and system is
\* the content of the last system entry whose content is valid; there is no
\* system field when no system entry has valid content.
SystemOfLastValidSystemMessage ==
  conv.state = "returned" =>
    /\ MessagesFiltered
    /\ LET items == conv.openaiRequest.messages.items
           sys == {i \in Positions({"system"}) :
                     items[i].content \notin InvalidContents}
       IN conv.claudeRequest.system =
            IF sys # {} THEN items[Last(sys)].content ELSE Undefined

\* a system entry with valid content followed by one with null content: the
\* first is the system field
SystemOfLastValidSystemMessageWitness ==
  /\ conv.state = "returned"
  /\ conv.openaiRequest.messages =
       Array(<<[role |-> "system", content |-> Str("S"), name |-> ""],
               [role |-> "system", content |-> Null, name |-> ""]>>)
  /\ conv.claudeRequest.system = Str("S")
  /\ conv.claudeRequest.messages.items = <<>>

\* C35: every top-level field of the result passes the valid check.  A
\* field that is present is not null, not a placeholder string, not an
\* empty array and not an empty object; messages is absent exactly when the
\* input has no user or assistant entry with valid content, and
\* stop_sequences, when present, is not empty.
FieldsValid ==
  conv.state = "returned" =>
    LET in == conv.openaiRequest
        out == conv.claudeRequest
    IN /\ \A f \in {"model", "max_tokens", "system", "temperature", "top_p",
                    "stream"} :
            out[f] = Undefined \/ out[f] \notin InvalidContents
       /\ \A f \in {"messages", "stop_sequences"} :
            /\ out[f].t \in {"undefined", "array"}
            /\ out[f].t = "array" => out[f].items # <<>>
            /\ out[f].t = "undefined" => out[f].items = <<>>
       /\ out.messages.t = "undefined" <=>
            \A i \in Positions({"user", "assistant"}) :
              in.messages.items[i].content \in InvalidContents
       /\ out.model # Undefined /\ out.max_tokens # Undefined
       /\ out.stream # Undefined

\* a request whose only message has null content and whose stop list holds
\* null only has been converted: no messages and no stop_sequences
FieldsValidWitness ==
  /\ conv.state = "returned"
  /\ conv.openaiRequest.messages =
       Array(<<[role |-> "user", content |-> Null]>>)
  /\ conv.openaiRequest.stop.t = "array"
  /\ conv.openaiRequest.max_tokens = Null
  /\ conv.claudeRequest.messages = NoArray
  /\ conv.claudeRequest.stop_sequences = NoArray
  /\ conv.claudeRequest.max_tokens = DefaultMaxTokens

\* the endpoints whose prefix the path matches: the path starts with the
\* prefix and '/', or (native paths only) is the prefix
Matches(pathname, native) ==
  {e \in ENDPOINTS :
     \/ /\ Len(pathname) > Len(endpointPath(e))
        /\ \A n \in 1..Len(endpointPath(e)) : pathname[n] = endpointPath(e)[n]
     \/ native /\ pathname = endpointPath(e)}

\* e is the first of the endpoints S in the order of ENDPOINTS, none if S
\* is empty
FirstDeclared(e, S) ==
  IF S = {} THEN e = NoIndex ELSE e \in S /\ \A e2 \in S : e <= e2

\* C36: parseRequestPath applies its rules in the order catalog suffix,
\* compat chat suffix, endpoint prefix, default; the preferred endpoint is
\* the first entry of ENDPOINTS whose prefix matches; a path under
\* '/claude/<tier>/' gives that tier and not '/claude', the last entry; a
\* path that matches nothing gives no preferred endpoint and is kept as it
\* is.
PathPrecedence ==
  parsed.state = "returned" =>
    LET pathname == parsed.pathname
        hint == parsed.hint
        catalog == endsWith(pathname, ModelsPath)
        chat == endsWith(pathname, ChatCompletionsPath)
    IN /\ catalog =>
            hint = [preferredEndpoint |-> NoIndex, apiPath |-> ModelsPath,
                    isOpenAI |-> TRUE, isModels |-> TRUE]
       /\ (~catalog /\ chat) =>
            /\ hint.isOpenAI /\ ~hint.isModels
            /\ hint.apiPath = MessagesPath
            /\ FirstDeclared(hint.preferredEndpoint, Matches(pathname, FALSE))
       /\ (~catalog /\ ~chat) =>
            /\ ~hint.isOpenAI /\ ~hint.isModels
            /\ FirstDeclared(hint.preferredEndpoint, Matches(pathname, TRUE))
            /\ hint.preferredEndpoint # NoIndex =>
                 endpointPath(hint.preferredEndpoint) \o hint.apiPath = pathname
            /\ hint.preferredEndpoint = NoIndex => hint.apiPath = pathname
       /\ \A e \in ENDPOINTS :
            (/\ ~catalog
             /\ e # NumEndpoints - 1
             /\ Len(pathname) > 2
             /\ pathname[1] = "claude"
             /\ pathname[2] = ENDPOINT_NAMES[e + 1])
              => hint.preferredEndpoint = e

\* a compat chat path under the first tier has been parsed: it matches the
\* prefix of the tier and the prefix '/claude', and the tier is preferred
PathPrecedenceWitness ==
  /\ parsed.state = "returned"
  /\ parsed.pathname = <<"claude", "droid">> \o ChatCompletionsPath
  /\ Matches(parsed.pathname, FALSE) = {0, NumEndpoints - 1}
  /\ parsed.hint = [preferredEndpoint |-> 0, apiPath |-> MessagesPath,
                    isOpenAI |-> TRUE, isModels |-> FALSE]

====
